---- MODULE Spec2Model ----
(***************************************************************************)
(* Roller-coaster builder: the physics simulator (RollerCoasterPhysics,    *)
(* TrackSpline), the track section assembler (buildTrackSections) and the  *)
(* two ride drivers (Canvas2DRideView.animate, RideCamera.useFrame).       *)
(*                                                                         *)
(* Numbers.  The program computes in IEEE doubles; the model computes in   *)
(* fixed point with Unit = 10^4 steps per unit (0.1 mm, 0.1 mm/s, 0.1 ms,  *)
(* 1e-4 of progress) and energies in 1/EnergyUnit joule.  Every product    *)
(* and quotient goes through MulDiv/DivU, which stay inside TLC's 32-bit   *)
(* integers.  Results are truncated toward zero.                           *)
(***************************************************************************)
EXTENDS Integers, Sequences, FiniteSets, TLC

\* ------------------------------------------------------------------------
\* Fixed-point arithmetic
\* ------------------------------------------------------------------------
Unit == 100 * 100
EnergyUnit == 10 * 10

\* Bindings.  CHOOSE once \in {e : x \in {v}} : TRUE is e with x standing for
\* the value of v: the one element of a one-element set.

Abs(a) == (CHOOSE once \in {(IF x < 0 THEN -x ELSE x) : x \in {a}} : TRUE)
Min(a, b) == (CHOOSE once \in {(IF x < y THEN x ELSE y) : x \in {a}, y \in {b}} : TRUE)
Max(a, b) == (CHOOSE once \in {(IF x > y THEN x ELSE y) : x \in {a}, y \in {b}} : TRUE)
Sign(a) == (CHOOSE once \in {(IF x > 0 THEN 1 ELSE IF x < 0 THEN -1 ELSE 0) : x \in {a}} : TRUE)

\* floor(a*b/c) for a, b >= 0 and 0 < c <= 46340, without forming a*b
MulDivN(a, b, c) ==
  (CHOOSE once \in {(
    (x \div c) * y + (x % c) * (y \div c) + ((x % c) * (y % c)) \div c) : x \in {a}, y \in {b}} : TRUE)

\* a*b/c, truncated toward zero
MulDiv(a, b, c) ==
  (CHOOSE once \in {(
    (IF (x < 0) = (y < 0) THEN 1 ELSE -1)
      * MulDivN(IF x < 0 THEN -x ELSE x, IF y < 0 THEN -y ELSE y, c)) : x \in {a}, y \in {b}} : TRUE)

\* fixed-point product a*b
Mul(a, b) == MulDiv(a, b, Unit)

\* fixed-point product a*b, rounded to the nearest step
MulRound(a, b) ==
  (CHOOSE once \in {(
    (CHOOSE once \in {(
      (IF (x < 0) = (y < 0) THEN 1 ELSE -1)
        * ((m \div Unit) * n + (m % Unit) * (n \div Unit)
             + ((m % Unit) * (n % Unit) + Unit \div 2) \div Unit)) : m \in {IF x < 0 THEN -x ELSE x}, n \in {IF y < 0 THEN -y ELSE y}} : TRUE)) : x \in {a}, y \in {b}} : TRUE)

\* floor(a*Unit/b) for a >= 0, 0 < b < 2*10^7: long division, two base-100 digits
DivUN(a, b) ==
  (CHOOSE once \in {(
    (CHOOSE once \in {(
      (x \div y) * Unit + (((x % y) * 100) \div y) * 100 + (r1 * 100) \div y) : r1 \in {((x % y) * 100) % y}} : TRUE)) : x \in {a}, y \in {b}} : TRUE)

\* fixed-point quotient a/b (b # 0), truncated toward zero
DivU(a, b) ==
  (CHOOSE once \in {(
    (IF (x < 0) = (y < 0) THEN 1 ELSE -1)
      * DivUN(IF x < 0 THEN -x ELSE x, IF y < 0 THEN -y ELSE y)) : x \in {a}, y \in {b}} : TRUE)

\* integer square root by Newton's iteration from above
RECURSIVE IsqrtFrom(_, _)
IsqrtFrom(n, r) ==
  (CHOOSE once \in {(IF r2 >= r THEN r ELSE IsqrtFrom(n, r2)) : r2 \in {(r + n \div r) \div 2}} : TRUE)

\* a power of two that is at least, and at most four times, the square root of m
IsqrtGuess(m) ==
  IF m < 16 THEN 4 ELSE IF m < 256 THEN 16 ELSE IF m < 4096 THEN 64
  ELSE IF m < 65536 THEN 256 ELSE IF m < 1048576 THEN 1024
  ELSE IF m < 16777216 THEN 4096 ELSE IF m < 268435456 THEN 16384 ELSE 46341

Isqrt(n) ==
  (CHOOSE once \in {(IF m <= 0 THEN 0 ELSE IsqrtFrom(m, IsqrtGuess(m))) : m \in {n}} : TRUE)

\* fixed-point Newton refinement of sqrt(a): r <- (r + a/r)/2
RECURSIVE SqrtFrom(_, _)
SqrtFrom(a, r) ==
  (CHOOSE once \in {(IF r2 >= r THEN r ELSE SqrtFrom(a, r2)) : r2 \in {(r + DivU(a, r)) \div 2}} : TRUE)

\* Math.sqrt on fixed-point a >= 0; above SqrtRange the quotients of the
\* refinement would leave the integers, and the root is taken of a / 100
SqrtRange == 4000000
RECURSIVE Sqrt(_)
Sqrt(a) ==
  (CHOOSE once \in {(IF b <= 0 THEN 0
                     ELSE IF b > SqrtRange THEN 10 * Sqrt(b \div 100)
                     ELSE SqrtFrom(b, (Isqrt(b) + 1) * 100)) : b \in {a}} : TRUE)

\* ------------------------------------------------------------------------
\* Vec3
\* ------------------------------------------------------------------------
Vec3(x, y, z) == [x |-> x, y |-> y, z |-> z]
VAdd(a, b) == (CHOOSE once \in {(Vec3(v.x + w.x, v.y + w.y, v.z + w.z)) : v \in {a}, w \in {b}} : TRUE)
VSub(a, b) == (CHOOSE once \in {(Vec3(v.x - w.x, v.y - w.y, v.z - w.z)) : v \in {a}, w \in {b}} : TRUE)
VScale(a, s) == (CHOOSE once \in {(Vec3(Mul(v.x, k), Mul(v.y, k), Mul(v.z, k))) : v \in {a}, k \in {s}} : TRUE)
\* the vector times a whole number
VTimes(a, n) == (CHOOSE once \in {(Vec3(n * v.x, n * v.y, n * v.z)) : v \in {a}} : TRUE)
VDot(a, b) == (CHOOSE once \in {(Mul(v.x, w.x) + Mul(v.y, w.y) + Mul(v.z, w.z)) : v \in {a}, w \in {b}} : TRUE)
\* Vec3.length; short vectors are measured in whole steps so that the square
\* keeps its digits, and vectors beyond VLengthRange, whose squares would
\* leave the integers, are measured at a hundredth of their size
VLengthRange == 2000000
RECURSIVE VLength(_)
VLength(a) ==
  (CHOOSE once \in {(
    IF Max(Abs(v.x), Max(Abs(v.y), Abs(v.z))) <= 13000
    THEN (Isqrt(4 * (v.x * v.x + v.y * v.y + v.z * v.z)) + 1) \div 2
    ELSE IF Max(Abs(v.x), Max(Abs(v.y), Abs(v.z))) > VLengthRange
    THEN 100 * VLength([x |-> v.x \div 100, y |-> v.y \div 100, z |-> v.z \div 100])
    ELSE Sqrt(Mul(v.x, v.x) + Mul(v.y, v.y) + Mul(v.z, v.z))) : v \in {a}} : TRUE)
\* Vec3.normalize: a vector of (near) zero length becomes (0, 1, 0)
VNormalize(a) ==
  (CHOOSE once \in {(
    (CHOOSE once \in {(
      IF len = 0 THEN Vec3(0, Unit, 0)
      ELSE Vec3(DivU(v.x, len), DivU(v.y, len), DivU(v.z, len))) : len \in {VLength(v)}} : TRUE)) : v \in {a}} : TRUE)
VDistance(a, b) == VLength(VSub(a, b))

\* ------------------------------------------------------------------------
\* Tracks: the control points handed to setTrack / buildTrackSections
\* (positions in metres, tilt in degrees)
\* ------------------------------------------------------------------------
Pt(x, y, z) == Vec3(x * Unit, y * Unit, z * Unit)
\* a control point given in decimetres
Pd(x, y, z) == Vec3(x * (Unit \div 10), y * (Unit \div 10), z * (Unit \div 10))
\* a control point given in centimetres
Pc(x, y, z) == Vec3(x * (Unit \div 100), y * (Unit \div 100), z * (Unit \div 100))

FlatTrack   == [points |-> <<Pt(0, 5, 0), Pt(1, 5, 0)>>, tilts |-> <<0, 0>>,
                isLooped |-> FALSE]
MoundTrack  == [points |-> <<Pd(0, 0, 0), Pd(5, 5, 0), Pd(10, 0, 0)>>,
                tilts |-> <<0, 0, 0>>, isLooped |-> FALSE]
DropTrack   == [points |-> <<Pt(0, 3, 0), Pt(2, 2, 0), Pt(4, 0, 0), Pt(6, 0, 0)>>,
                tilts |-> <<0, 0, 0, 0>>, isLooped |-> FALSE]
CircuitTrack == [points |-> <<Pd(0, 10, 0), Pd(5, 10, 0), Pd(0, 10, 5)>>,
                 tilts |-> <<0, 20, 0>>, isLooped |-> TRUE]
\* the single hill (0,0,0), (25,20,0), (50,0,0) at a scale of 1:10
HillTrack   == [points |-> <<Pd(0, 0, 0), Pd(25, 20, 0), Pd(50, 0, 0)>>,
                tilts |-> <<0, 0, 0>>, isLooped |-> FALSE]
\* a control point 0.1 m above the ground
LowTrack    == [points |-> <<Pd(0, 10, 0), Pd(10, 1, 0), Pd(20, 10, 0)>>,
                tilts |-> <<0, 0, 0>>, isLooped |-> FALSE]
\* a level lap of some 11 m
LapTrack    == [points |-> <<Pc(0, 100, 0), Pc(313, 100, 0), Pc(0, 100, 313)>>,
                tilts |-> <<0, 0, 0>>, isLooped |-> TRUE]
\* a level square circuit of some 245 m: 8 control points 30 m apart
RingTrack   == [points |-> <<Pt(0, 1, 0), Pt(30, 1, 0), Pt(60, 1, 0), Pt(60, 1, 30),
                              Pt(60, 1, 60), Pt(30, 1, 60), Pt(0, 1, 60), Pt(0, 1, 30)>>,
                tilts |-> <<0, 0, 0, 0, 0, 0, 0, 0>>, isLooped |-> TRUE]
\* fewer than two control points
StubTrack   == [points |-> <<Pt(0, 1, 0)>>, tilts |-> <<0>>, isLooped |-> FALSE]
\* two control points at one place: a track of length 0
PointTrack  == [points |-> <<Pt(0, 1, 0), Pt(0, 1, 0)>>, tilts |-> <<0, 0>>,
                isLooped |-> FALSE]

\* ------------------------------------------------------------------------
\* TrackSpline (PhysicsEngine.ts)
\* ------------------------------------------------------------------------
\* segments = isLooped ? n : n - 1
Segments(trk) == IF trk.isLooped THEN Len(trk.points) ELSE Len(trk.points) - 1

\* getControlPoints(i), i counted from 0: wraps on a closed track, clamps on an open one
getControlPoints(trk, i) ==
  LET n == Len(trk.points)
      pt(j) == trk.points[j + 1]
  IN  IF trk.isLooped
      THEN <<pt((i - 1 + n) % n), pt(i % n), pt((i + 1) % n), pt((i + 2) % n)>>
      ELSE <<pt(Max(0, i - 1)), pt(i), pt(Min(n - 1, i + 1)), pt(Min(n - 1, i + 2))>>

\* the three polynomial coefficients of catmullRomInterpolate, one coordinate
CrC1(p0, p1, p2, p3) == p2 - p0
CrC2(p0, p1, p2, p3) == 2 * p0 - 5 * p1 + 4 * p2 - p3
CrC3(p0, p1, p2, p3) == 3 * p1 - p0 - 3 * p2 + p3

\* catmullRomInterpolate, one coordinate: 0.5*(2 p1 + c1 t + c2 t^2 + c3 t^3)
CatmullRom1(p0, p1, p2, p3, t, t2, t3) ==
  (2 * p1 + Mul(CrC1(p0, p1, p2, p3), t) + Mul(CrC2(p0, p1, p2, p3), t2)
     + Mul(CrC3(p0, p1, p2, p3), t3)) \div 2

catmullRomInterpolate(cp, t) ==
  (CHOOSE once \in {(
    (CHOOSE once \in {(
      Vec3(CatmullRom1(c[1].x, c[2].x, c[3].x, c[4].x, t, t2, t3),
           CatmullRom1(c[1].y, c[2].y, c[3].y, c[4].y, t, t2, t3),
           CatmullRom1(c[1].z, c[2].z, c[3].z, c[4].z, t, t2, t3))) : t3 \in {Mul(t2, t)}} : TRUE)) : c \in {cp}, t2 \in {Mul(t, t)}} : TRUE)

\* the segment index and local fraction getPointRaw derives from t in [0, 1]
SegIndex(trk, t) ==
  (CHOOSE once \in {(
    IF (t * segments) \div Unit >= segments THEN segments - 1 ELSE (t * segments) \div Unit) : segments \in {Segments(trk)}} : TRUE)
SegFrac(trk, t) ==
  (CHOOSE once \in {(
    IF (t * segments) \div Unit >= segments THEN Unit ELSE (t * segments) % Unit) : segments \in {Segments(trk)}} : TRUE)

getPointRaw(trk, t) ==
  IF Len(trk.points) < 2 THEN Vec3(0, 0, 0)
  ELSE (CHOOSE once \in {(
         catmullRomInterpolate(getControlPoints(trk, SegIndex(trk, tc)), SegFrac(trk, tc))) : tc \in {Max(0, Min(Unit, t))}} : TRUE)

\* P(fb) - P(fa) on one segment, divided by (fb - fa)/2, one coordinate:
\* c1 + c2 (fa + fb) + c3 (fa^2 + fa fb + fb^2)
\* with s1 = fa + fb and s2 = fa^2 + fa fb + fb^2
Chord1(p0, p1, p2, p3, s1, s2) ==
  CrC1(p0, p1, p2, p3) + Mul(CrC2(p0, p1, p2, p3), s1) + Mul(CrC3(p0, p1, p2, p3), s2)

Chord(cp, fa, fb) ==
  (CHOOSE once \in {(
    Vec3(Chord1(c[1].x, c[2].x, c[3].x, c[4].x, s1, s2),
         Chord1(c[1].y, c[2].y, c[3].y, c[4].y, s1, s2),
         Chord1(c[1].z, c[2].z, c[3].z, c[4].z, s1, s2))) : c \in {cp}, s1 \in {fa + fb}, s2 \in {Mul(fa, fa) + Mul(fa, fb) + Mul(fb, fb)}} : TRUE)

\* getTangentRaw: normalize(getPointRaw(min(1, t + eps)) - getPointRaw(max(0, t - eps))),
\* eps = 0.0001 (one step of t).  The two points are 2*eps apart, closer than
\* the fixed-point positions resolve, so the difference is formed from the
\* segment polynomials (the same vector up to the positive factor the
\* normalisation removes): one chord when both ends lie on one segment, the
\* sum of two weighted chords when a control point lies between them.
getTangentRaw(trk, t) ==
  (CHOOSE once \in {(
    (CHOOSE once \in {(
      VNormalize(IF ia = ib
                 THEN Chord(getControlPoints(trk, ia), fa, fb)
                 ELSE VAdd(VTimes(Chord(getControlPoints(trk, ia), fa, Unit), Unit - fa),
                           VTimes(Chord(getControlPoints(trk, ib), 0, fb), fb)))) : ia \in {SegIndex(trk, ta)}, ib \in {SegIndex(trk, tb)}, fa \in {SegFrac(trk, ta)}, fb \in {SegFrac(trk, tb)}} : TRUE)) : ta \in {Max(0, t - 1)}, tb \in {Min(Unit, t + 1)}} : TRUE)

\* computeArcLengths: the sum of the 1000 chords between getPointRaw(i/1000)
ArcSteps == 1000
RECURSIVE ChordSum(_, _, _)
ChordSum(trk, lo, hi) ==
  IF lo = hi
  THEN VDistance(getPointRaw(trk, ((lo - 1) * Unit) \div ArcSteps),
                 getPointRaw(trk, (lo * Unit) \div ArcSteps))
  ELSE LET mid == (lo + hi) \div 2
       IN  ChordSum(trk, lo, mid) + ChordSum(trk, mid + 1, hi)

computeArcLengths(trk) == IF Len(trk.points) < 2 THEN 0 ELSE ChordSum(trk, 1, ArcSteps)

\* Math.cos, Math.sin by their Taylor polynomials (|a| <= pi/2)
Pi == 31416
Cos(a) ==
  (CHOOSE once \in {(
    (CHOOSE once \in {(
      Unit - a2 \div 2 + a4 \div 24 - Mul(a4, a2) \div 720 + Mul(a4, a4) \div 40320) : a4 \in {Mul(a2, a2)}} : TRUE)) : a2 \in {Mul(a, a)}} : TRUE)
Sin(a) ==
  (CHOOSE once \in {(
    (CHOOSE once \in {(
      (CHOOSE once \in {(
        x - a3 \div 6 + a5 \div 120 - Mul(a5, a2) \div 5040) : a5 \in {Mul(a3, a2)}} : TRUE)) : a3 \in {Mul(a2, x)}} : TRUE)) : x \in {a}, a2 \in {Mul(a, a)}} : TRUE)

\* getTiltAtT: the tilt (radians) interpolated between the two neighbouring points
getTiltAtT(spl, t) ==
  IF Len(spl.tilts) < 2 THEN 0
  ELSE LET n == Len(spl.tilts)
           scaledT == t * Segments(spl)
           i == scaledT \div Unit
           frac == scaledT % Unit
           rad(j) == (spl.tilts[j + 1] * Pi) \div 180
       IN  Mul(rad(Min(i, n - 1)), Unit - frac) + Mul(rad(Min(i + 1, n - 1)), frac)

\* sampleAt(t).  The frame vectors normal and binormal, which step() never
\* reads, are left out of the sample.
sampleAt(spl, t) ==
  (CHOOSE once \in {(
    (CHOOSE once \in {(
      [position  |-> getPointRaw(spl, t),
       tangent   |-> tangent,
       curvature |-> VLength(Vec3(DivU(dTan.x, den), DivU(dTan.y, den), DivU(dTan.z, den))),
       grade     |-> tangent.y * 100,
       bankAngle |-> getTiltAtT(spl, t),
       arcLength |-> Mul(t, spl.totalLength)]) : dTan \in {VSub(getTangentRaw(spl, t2), getTangentRaw(spl, t1))}, den \in {Max(Mul(t2 - t1, spl.totalLength), 10)}} : TRUE)) : tangent \in {getTangentRaw(spl, t)}, t1 \in {Max(0, t - 10)}, t2 \in {Min(Unit, t + 10)}} : TRUE)

\* precomputeSamples: sampleAt(i / numSamples) for i = 0 .. numSamples
SampleResolution == 100
MinSamples == 100
NumSamples(totalLength) == Max(MinSamples, (totalLength * SampleResolution) \div Unit)
precomputeSamples(spl) ==
  IF Len(spl.points) < 2 THEN <<>>
  ELSE (CHOOSE once \in {(
         [j \in 1..(numSamples + 1) |-> sampleAt(spl, ((j - 1) * Unit) \div numSamples)]) : numSamples \in {NumSamples(spl.totalLength)}} : TRUE)

\* new TrackSpline(trackPoints, isLooped)
TrackSpline(trk) ==
  (CHOOSE once \in {(
    [measured EXCEPT !.samples = precomputeSamples(measured)]) : measured \in {[points |-> trk.points, tilts |-> trk.tilts, isLooped |-> trk.isLooped,
                   totalLength |-> computeArcLengths(trk), samples |-> <<>>]}} : TRUE)

Lerp(a, b, frac) == (CHOOSE once \in {(x + Mul(b - x, frac)) : x \in {a}} : TRUE)
VLerp(a, b, frac) ==
  (CHOOSE once \in {(
    Vec3(Lerp(v.x, w.x, frac), Lerp(v.y, w.y, frac), Lerp(v.z, w.z, frac))) : v \in {a}, w \in {b}} : TRUE)

\* getSampleAtProgress: linear interpolation between the two precomputed
\* samples around the clamped progress
getSampleAtProgress(spl, progress) ==
  (CHOOSE once \in {(
    IF last < 0 THEN sampleAt(spl, p)
    ELSE IF (p * last) \div Unit >= last THEN spl.samples[last + 1]
    ELSE (CHOOSE once \in {(
           (CHOOSE once \in {(
             [position  |-> VLerp(s1.position, s2.position, frac),
              tangent   |-> VNormalize(VLerp(s1.tangent, s2.tangent, frac)),
              curvature |-> Lerp(s1.curvature, s2.curvature, frac),
              grade     |-> Lerp(s1.grade, s2.grade, frac),
              bankAngle |-> Lerp(s1.bankAngle, s2.bankAngle, frac),
              arcLength |-> Lerp(s1.arcLength, s2.arcLength, frac)]) : frac \in {(p * last) % Unit}} : TRUE)) : s1 \in {spl.samples[(p * last) \div Unit + 1]}, s2 \in {spl.samples[(p * last) \div Unit + 2]}} : TRUE)) : p \in {Max(0, Min(Unit, progress))}, last \in {Len(spl.samples) - 1}} : TRUE)

\* arcLengthToProgress
arcLengthToProgress(spl, arcLength) ==
  IF spl.totalLength <= 0 THEN 0
  ELSE Max(0, Min(Unit, DivU(arcLength, spl.totalLength)))

\* the tracks a simulator can be given, and their splines (built once)
TrackList == <<FlatTrack, MoundTrack, DropTrack, CircuitTrack, StubTrack, PointTrack,
              LowTrack, LapTrack, HillTrack, RingTrack>>
Splines == [k \in 1..Len(TrackList) |-> TrackSpline(TrackList[k])]

\* ------------------------------------------------------------------------
\* PHYSICS_CONSTANTS (fixed point)
\* ------------------------------------------------------------------------
GRAVITY == 98066
AIR_DENSITY == 12040
CAR_MASS == 500
PASSENGER_MASS == 75
PASSENGERS == 4
CAR_FRONTAL_AREA == 15000
CAR_DRAG_COEFFICIENT == 3500
ROLLING_RESISTANCE_COEF == 50
CHAIN_LIFT_SPEED == 25000
CHAIN_LIFT_ACCELERATION == 5000
MAX_VERTICAL_G == 45000
MIN_VERTICAL_G == -15000
MAX_LATERAL_G == 18000
MAX_SPEED == 500000
MIN_SPEED == 1000
PHYSICS_SUBSTEPS == 4
\* step(): dt = Math.min(dt, 0.05)
MaxDt == 500

\* this.mass, set by the constructor
mass == CAR_MASS + PASSENGER_MASS * PASSENGERS

\* mass * GRAVITY * y, in 1/EnergyUnit joule
PotentialEnergy(y) == MulDiv(Mul(GRAVITY, y), mass * EnergyUnit, Unit)
\* 0.5 * mass * speed * speed
KineticEnergy(speed) == MulDiv(Mul(speed, speed), mass * EnergyUnit, 2 * Unit)
\* Math.sqrt(2 * maxKE / mass)
SpeedOfEnergy(maxKE) == Sqrt(MulDiv(maxKE, 2 * (Unit \div EnergyUnit), mass))

\* ------------------------------------------------------------------------
\* RollerCoasterPhysics: the simulator object is the record
\*   [spline, state, hasChainLift, chainLiftEndProgress]
\* spline = 0 is the null spline, otherwise an index of Splines.
\* ------------------------------------------------------------------------
Zero3 == Vec3(0, 0, 0)

createDefaultState ==
  [position |-> Zero3, velocity |-> Zero3, speed |-> 0, progress |-> 0, arcLength |-> 0,
   acceleration |-> Zero3, netForce |-> Zero3,
   gForceVertical |-> Unit, gForceLateral |-> 0, gForceLongitudinal |-> 0,
   gForceTotal |-> Unit,
   trackSample |-> [position |-> Zero3, tangent |-> Vec3(Unit, 0, 0), curvature |-> 0,
                    grade |-> 0, bankAngle |-> 0, arcLength |-> 0],
   isOnChainLift |-> FALSE, isInLoop |-> FALSE, isBraking |-> FALSE, isAirtime |-> FALSE,
   kineticEnergy |-> 0, potentialEnergy |-> 0, totalEnergy |-> 0]

\* new RollerCoasterPhysics()
NewPhysics ==
  [spline |-> 0, state |-> createDefaultState, hasChainLift |-> FALSE,
   chainLiftEndProgress |-> (2 * Unit) \div 10]

\* setTrack's search for the chain lift end: the index (from 0) of the first
\* highest point among points 0 .. min(n, floor(n*0.5)) - 1
RECURSIVE MaxIndexUpTo(_, _)
MaxIndexUpTo(points, i) ==
  IF i = 0 THEN 0
  ELSE LET m == MaxIndexUpTo(points, i - 1)
       IN  IF points[i + 1].y > points[m + 1].y THEN i ELSE m

ChainLiftEnd(points) ==
  LET n == Len(points)
      last == Min(n, n \div 2) - 1
      maxIndex == IF last < 1 THEN 0 ELSE MaxIndexUpTo(points, last)
  IN  ((maxIndex + 1) * Unit) \div n

\* setTrack(trackPoints, isLooped), the track being TrackList[k]
setTrack(eng, k) ==
  IF Len(TrackList[k].points) < 2 THEN [eng EXCEPT !.spline = 0]
  ELSE [eng EXCEPT !.spline = k,
                   !.chainLiftEndProgress =
                      IF eng.hasChainLift /\ Len(TrackList[k].points) > 2
                      THEN ChainLiftEnd(TrackList[k].points) ELSE @]

\* setChainLift(enabled)
setChainLift(eng, enabled) == [eng EXCEPT !.hasChainLift = enabled]

\* reset()
reset(eng) ==
  IF eng.spline = 0 THEN [eng EXCEPT !.state = createDefaultState]
  ELSE (CHOOSE once \in {(
         (CHOOSE once \in {(
           [eng EXCEPT !.state =
              [createDefaultState EXCEPT !.position = sample.position,
                                         !.trackSample = sample,
                                         !.potentialEnergy = pe,
                                         !.totalEnergy = pe]]) : pe \in {PotentialEnergy(sample.position.y)}} : TRUE)) : sample \in {getSampleAtProgress(Splines[eng.spline], 0)}} : TRUE)

\* setProgress(progress)
setProgress(eng, progress) ==
  IF eng.spline = 0 THEN eng
  ELSE (CHOOSE once \in {(
         (CHOOSE once \in {(
           [eng EXCEPT !.state.progress = p,
                       !.state.arcLength = Mul(p, spl.totalLength),
                       !.state.trackSample = sample,
                       !.state.position = sample.position]) : sample \in {getSampleAtProgress(spl, p)}} : TRUE)) : p \in {Max(0, Min(Unit, progress))}, spl \in {Splines[eng.spline]}} : TRUE)

\* the floor setSpeed clamps to
SetSpeedFloor == 0

\* setSpeed(speed), with updateTotalEnergy()
setSpeed(eng, speed) ==
  (CHOOSE once \in {(
    (CHOOSE once \in {(
      [eng EXCEPT !.state.speed = sp,
                  !.state.velocity =
                     IF eng.spline # 0 THEN VScale(eng.state.trackSample.tangent, sp) ELSE @,
                  !.state.kineticEnergy = ke,
                  !.state.totalEnergy = ke + eng.state.potentialEnergy]) : ke \in {KineticEnergy(sp)}} : TRUE)) : sp \in {Max(SetSpeedFloor, Min(MAX_SPEED, speed))}} : TRUE)

\* Math.cos(Math.atan(x)) = 1 / sqrt(1 + x^2)
CosAtan(x) == (CHOOSE once \in {(DivU(Unit, Sqrt(Unit + Mul(g, g)))) : g \in {x}} : TRUE)

\* calculateForces(sample, speed): gravity + drag + friction + chainLift, the
\* sum stepInternal forms (normal and centripetal are computed and not used)
NetForce(sample, speed, onChainLift) ==
  (CHOOSE once \in {(
    (CHOOSE once \in {(
      LET gravity == Vec3(0, -(mass * GRAVITY), 0)
          drag == VScale(sample.tangent, -(dragMagnitude * Sign(speed)))
          friction == VScale(sample.tangent, -(frictionMagnitude * Sign(speed)))
          \* sin(atan(x)) = x cos(atan(x))
          requiredForce ==
            Mul(mass * GRAVITY, Mul(sample.grade \div 100, cosIncline))
              + frictionMagnitude + dragMagnitude
          chainLift == IF onChainLift THEN VScale(sample.tangent, Max(0, requiredForce))
                       ELSE Zero3
      IN  VAdd(VAdd(VAdd(gravity, drag), friction), chainLift)) : frictionMagnitude \in {Mul(ROLLING_RESISTANCE_COEF, Mul(mass * GRAVITY, cosIncline))}} : TRUE)) : dragMagnitude \in {Mul(Mul(Mul(AIR_DENSITY, CAR_FRONTAL_AREA), CAR_DRAG_COEFFICIENT), Mul(speed, speed))
          \div 2}, cosIncline \in {CosAtan(sample.grade \div 100)}} : TRUE)

ClampToHalf(lo, hi, v) == Max(lo \div 2, Min(hi \div 2, v))
\* Math.max(lo, Math.min(hi, v))
Clamp(lo, hi, v) == Max(lo, Min(hi, v))

\* calculateGForces(acceleration, sample, speed) before its clamp
GForces(acceleration, sample, speed) ==
  (CHOOSE once \in {(
    [vertical     |-> DivU(Mul(GRAVITY, Cos(sample.bankAngle)) + centripetalAccel, GRAVITY),
     lateral      |-> DivU(Mul(centripetalAccel, Sin(sample.bankAngle)), GRAVITY),
     longitudinal |-> -DivU(VDot(acceleration, sample.tangent), GRAVITY)]) : centripetalAccel \in {Mul(Mul(speed, speed), sample.curvature)}} : TRUE)

\* calculateGForces(acceleration, sample, speed)
calculateGForces(acceleration, sample, speed) ==
  (CHOOSE once \in {(
    [vertical     |-> Clamp(MIN_VERTICAL_G, MAX_VERTICAL_G, g.vertical),
     lateral      |-> Clamp(-MAX_LATERAL_G, MAX_LATERAL_G, g.lateral),
     longitudinal |-> g.longitudinal]) : g \in {GForces(acceleration, sample, speed)}} : TRUE)

\* the chain lift branch of stepInternal: the speed after one substep of dt
ChainLiftSpeed(speed, dt) ==
  IF speed < CHAIN_LIFT_SPEED
  THEN Min(speed + Mul(CHAIN_LIFT_ACCELERATION, dt), CHAIN_LIFT_SPEED)
  ELSE CHAIN_LIFT_SPEED

\* the energy check of stepInternal: the speed kept when the integrated speed
\* implies the energy currentTotal at potential energy currentPE
EnergyCorrectedSpeed(speed, currentPE, currentTotal, totalEnergy) ==
  IF currentTotal > MulDiv(totalEnergy, 101, 100) /\ totalEnergy - currentPE > 0
  THEN SpeedOfEnergy(totalEnergy - currentPE)
  ELSE speed

RecordedEnergyLatest(totalEnergy, currentTotal) == currentTotal
\* this.state.totalEnergy = Math.min(this.state.totalEnergy, currentTotal)
RecordedEnergy(totalEnergy, currentTotal) == Min(totalEnergy, currentTotal)

ClampSpeedFromZero(speed) == Max(0, Min(MAX_SPEED, speed))
\* the final clamp of the speed
ClampSpeed(speed) == Max(MIN_SPEED, Min(MAX_SPEED, speed))

\* the wrap of a closed track: progress % 1 of the clamped progress
WrapProgress(progress) == progress % Unit

\* stepInternal, the chain lift branch: the speed it assigns; the net force
\* and the recorded total energy stay as they were
OnChainLift(st, dt) ==
  [speed |-> ChainLiftSpeed(st.speed, dt), netForce |-> st.netForce,
   totalEnergy |-> st.totalEnergy]

\* stepInternal, the "normal physics" branch: the net force, the integrated
\* and energy-corrected speed, and the recorded total energy
FreeRunning(st, sample, dt) ==
  (CHOOSE once \in {(
    (CHOOSE once \in {(
      (CHOOSE once \in {(
        (CHOOSE once \in {(
          [speed |-> EnergyCorrectedSpeed(integrated, currentPE, currentTotal,
                                          st.totalEnergy),
           netForce |-> netForce,
           totalEnergy |-> RecordedEnergy(st.totalEnergy, currentTotal)]) : currentTotal \in {currentPE + KineticEnergy(integrated)}} : TRUE)) : currentPE \in {PotentialEnergy(sample.position.y)}} : TRUE)) : integrated \in {st.speed + MulRound(VDot(netForce, sample.tangent) \div mass, dt)}} : TRUE)) : netForce \in {NetForce(sample, st.speed, FALSE)}} : TRUE)

\* stepInternal from the clamped speed on: position along the track, G forces
\* and energies
Advance(eng, spl, dt, sample, onLift, moved, speed) ==
  (CHOOSE once \in {(
      (CHOOSE once \in {(
        [eng EXCEPT !.state =
          [position |-> sample.position,
           velocity |-> VScale(sample.tangent, speed),
           speed |-> speed,
           progress |-> IF spl.isLooped /\ progress >= Unit THEN WrapProgress(progress)
                        ELSE progress,
           arcLength |-> IF spl.isLooped /\ progress >= Unit THEN arcLength % spl.totalLength
                         ELSE arcLength,
           acceleration |-> acceleration,
           netForce |-> moved.netForce,
           gForceVertical |-> g.vertical,
           gForceLateral |-> g.lateral,
           gForceLongitudinal |-> g.longitudinal,
           gForceTotal |-> VLength(Vec3(g.vertical, g.lateral, g.longitudinal)),
           trackSample |-> sample,
           isOnChainLift |-> onLift,
           isInLoop |-> sample.curvature > Unit \div 10 /\ sample.grade > 20 * Unit,
           isBraking |-> eng.state.isBraking,
           isAirtime |-> g.vertical < Unit \div 2,
           kineticEnergy |-> KineticEnergy(speed),
           potentialEnergy |-> PotentialEnergy(sample.position.y),
           totalEnergy |-> moved.totalEnergy]]) : progress \in {arcLengthToProgress(spl, arcLength)}, g \in {calculateGForces(acceleration, sample, speed)}} : TRUE)) : arcLength \in {eng.state.arcLength + MulRound(speed, dt)}, acceleration \in {\* this.state.speed has been assigned before the acceleration is formed
            VScale(sample.tangent, DivU(speed - speed, Max(dt, 10)))}} : TRUE)

\* stepInternal(dt) on a simulator with a spline
stepInternal(eng, spl, dt) ==
  (CHOOSE once \in {(
    (CHOOSE once \in {(
      (CHOOSE once \in {(
        (CHOOSE once \in {(
          Advance(eng, spl, dt, sample, onLift, moved, speed)) : speed \in {ClampSpeed(moved.speed)}} : TRUE)) : moved \in {IF onLift THEN OnChainLift(eng.state, dt)
           ELSE FreeRunning(eng.state, sample, dt)}} : TRUE)) : onLift \in {eng.hasChainLift /\ eng.state.progress < eng.chainLiftEndProgress}} : TRUE)) : sample \in {getSampleAtProgress(spl, eng.state.progress)}} : TRUE)

SubDtUncapped(dt) == dt \div PHYSICS_SUBSTEPS
\* the dt step() hands to each substep
SubDt(dt) == Min(dt, MaxDt) \div PHYSICS_SUBSTEPS

\* the simulators after 0, 1, .., n substeps
RECURSIVE SubstepRun(_, _, _, _)
SubstepRun(eng, spl, dt, n) ==
  IF n = 0 THEN <<eng>>
  ELSE (CHOOSE once \in {(Append(before, stepInternal(before[n], spl, dt))) : before \in {SubstepRun(eng, spl, dt, n - 1)}} : TRUE)

\* step(dt) returns early without a spline or on a spline of no length
HasTrack(eng) == eng.spline # 0 /\ Splines[eng.spline].totalLength > 0
ZeroLengthIgnored(spl) == FALSE
\* this.spline.getTotalLength() <= 0
ZeroLength(spl) == spl.totalLength <= 0
\* the simulators step(dt) passes through, none when it returns early
StepRun(eng, dt) ==
  IF eng.spline = 0 THEN <<>>
  ELSE (CHOOSE once \in {(
         IF ZeroLength(spl) THEN <<>>
         ELSE SubstepRun(eng, spl, SubDt(dt), PHYSICS_SUBSTEPS)) : spl \in {Splines[eng.spline]}} : TRUE)
\* step(dt)
step(eng, dt) ==
  (CHOOSE once \in {(
    IF run = <<>> THEN eng ELSE run[PHYSICS_SUBSTEPS + 1]) : run \in {StepRun(eng, dt)}} : TRUE)

\* ------------------------------------------------------------------------
\* Track sections (trackUtils.ts)
\* ------------------------------------------------------------------------
\* the value of 0/0 and x/0: a number that compares false with every number
NaN == 0 - 1
Finite(x) == x # NaN
\* a / b in JavaScript, on progress values and lengths (a, b >= 0)
Quot(a, b) ==
  (CHOOSE once \in {(IF x = NaN \/ y = NaN \/ y = 0 THEN NaN ELSE DivU(x, y)) : x \in {a}, y \in {b}} : TRUE)

VCross(a, b) ==
  (CHOOSE once \in {(
    Vec3(Mul(v.y, w.z) - Mul(v.z, w.y), Mul(v.z, w.x) - Mul(v.x, w.z),
         Mul(v.x, w.y) - Mul(v.y, w.x))) : v \in {a}, w \in {b}} : TRUE)
\* THREE.Vector3.normalize: divides by (length || 1), so a zero vector stays zero
ThreeNormalize(a) ==
  (CHOOSE once \in {(
    (CHOOSE once \in {(
      IF len = 0 THEN v ELSE Vec3(DivU(v.x, len), DivU(v.y, len), DivU(v.z, len))) : len \in {VLength(v)}} : TRUE)) : v \in {a}} : TRUE)

\* Math.sin, Math.cos on any angle >= -pi/2, folded into [-pi/2, pi/2]
TwoPi == 2 * Pi
SinAny(a) ==
  (CHOOSE once \in {(
    IF 2 * b <= Pi THEN Sin(b)
    ELSE IF 2 * b <= 3 * Pi THEN Sin(Pi - b)
    ELSE Sin(b - TwoPi)) : b \in {(a + TwoPi) % TwoPi}} : TRUE)
CosAny(a) == SinAny(a + Pi \div 2)

\* getTrackCurve: THREE.CatmullRomCurve3(points, isLooped, "catmullrom", 0.5).
\* Its four control points for segment i (from 0): a closed curve wraps, an
\* open curve continues past its ends by reflection (2 p[0] - p[1] and
\* 2 p[l-1] - p[l-2]).
CurveControl(curve, i) ==
  LET l == Len(curve.points)
      pt(j) == curve.points[(j % l) + 1]
  IN  <<IF curve.isLooped \/ i > 0 THEN pt(i - 1 + l)
        ELSE VSub(VAdd(curve.points[1], curve.points[1]), curve.points[2]),
        pt(i),
        pt(i + 1),
        IF curve.isLooped \/ i + 2 < l THEN pt(i + 2)
        ELSE VSub(VAdd(curve.points[l], curve.points[l]), curve.points[l - 1])>>

getTrackCurve(trackPoints, isLooped) == [points |-> trackPoints, isLooped |-> isLooped]

\* curve.getPoint(t), t in [0, 1]
CurvePoint(curve, t) ==
  catmullRomInterpolate(CurveControl(curve, SegIndex(curve, t)), SegFrac(curve, t))

\* curve.getTangent(t): normalize(getPoint(min(1, t + d)) - getPoint(max(0, t - d))),
\* d = 0.0001, formed from the segment polynomials as in getTangentRaw
CurveTangent(curve, t) ==
  LET ta == Max(0, t - 1)
      tb == Min(Unit, t + 1)
      ia == SegIndex(curve, ta)
      ib == SegIndex(curve, tb)
      fa == SegFrac(curve, ta)
      fb == SegFrac(curve, tb)
  IN  IF ia = ib
      THEN ThreeNormalize(Chord(CurveControl(curve, ia), fa, fb))
      ELSE LET ca == Chord(CurveControl(curve, ia), fa, Unit)
               cb == Chord(CurveControl(curve, ib), 0, fb)
               wa == Unit - fa
               wb == fb
           IN  ThreeNormalize(Vec3(wa * ca.x + wb * cb.x, wa * ca.y + wb * cb.y,
                                   wa * ca.z + wb * cb.z))

\* the eased loop angle theta(t) = 2 pi (t - sin(2 pi t)/(2 pi)) and its derivative
LoopTheta(t) == (CHOOSE once \in {(a - SinAny(a)) : a \in {Mul(TwoPi, t)}} : TRUE)
LoopDTheta(t) == Mul(TwoPi, Unit - CosAny(Mul(TwoPi, t)))

\* sampleVerticalLoopAnalytically(frame, t): position and direction on a loop
\* element (the up and normal vectors, which the section assembler never
\* reads, are left out)
sampleVerticalLoopAnalytically(frame, t) ==
  (CHOOSE once \in {(
    (CHOOSE once \in {(
      LET corkscrewOffset == (frame.radius * 4) \div 10
      IN  [point |->
             VAdd(VAdd(frame.entryPos,
                       VScale(frame.forward, Mul(frame.pitch, t) + Mul(frame.radius, s))),
                  VAdd(VScale(frame.up, Mul(frame.radius, Unit - c)),
                       VScale(frame.right, Mul(corkscrewOffset, s)))),
           tangent |->
             ThreeNormalize(
               VAdd(VScale(frame.forward,
                           frame.pitch + Mul(Mul(frame.radius, c), dThetaDt)),
                    VAdd(VScale(frame.up, Mul(Mul(frame.radius, s), dThetaDt)),
                         VScale(frame.right, Mul(Mul(corkscrewOffset, c), dThetaDt)))))]) : s \in {SinAny(theta)}, c \in {CosAny(theta)}} : TRUE)) : theta \in {LoopTheta(t)}, dThetaDt \in {LoopDTheta(t)}} : TRUE)

\* computeRollFrame: the entry frame of a loop element, anchored to world up
UpLengthMin == 10
computeRollFrame(curve, splineT, radius, pitch, rollOffset) ==
  (CHOOSE once \in {(
    LET worldUp == Vec3(0, Unit, 0)
        across == VSub(worldUp, VScale(forward, VDot(worldUp, forward)))
        side == Vec3(Unit, 0, 0)
        entryUp == IF VLength(across) > UpLengthMin THEN ThreeNormalize(across)
                   ELSE ThreeNormalize(VSub(side, VScale(forward, VDot(side, forward))))
    IN  [entryPos |-> VAdd(CurvePoint(curve, splineT), rollOffset),
         forward  |-> forward,
         up       |-> entryUp,
         right    |-> ThreeNormalize(VCross(forward, entryUp)),
         radius   |-> radius,
         pitch    |-> pitch]) : forward \in {ThreeNormalize(CurveTangent(curve, splineT))}} : TRUE)

\* computeRollArcLength: 100 straight steps along the loop element
RollSteps == 100
RollStepLength(radius, pitch, i) ==
  LET dTheta == LoopTheta(((i + 1) * Unit) \div RollSteps)
                  - LoopTheta((i * Unit) \div RollSteps)
      dForward == pitch \div RollSteps
      dRadial == Mul(radius, Abs(dTheta))
  IN  VLength(Vec3(dForward, dRadial, 0))
\* the steps lo .. hi summed
RECURSIVE RollLengthSum(_, _, _, _)
RollLengthSum(radius, pitch, lo, hi) ==
  IF lo = hi THEN RollStepLength(radius, pitch, lo)
  ELSE RollLengthSum(radius, pitch, lo, (lo + hi) \div 2)
         + RollLengthSum(radius, pitch, (lo + hi) \div 2 + 1, hi)
computeRollArcLength(radius, pitch) == RollLengthSum(radius, pitch, 0, RollSteps - 1)

\* createLoopAtPoint gives every loop element this radius and pitch (metres)
LoopRadius == 5
LoopPitch == 12
RollArcLength == computeRollArcLength(LoopRadius * Unit, LoopPitch * Unit)

\* the length buildTrackSections measures for spline segment i: 10 chords
SubSamples == 10
RECURSIVE SegmentLengthFrom(_, _)
SegmentLengthFrom(cp, s) ==
  IF s >= SubSamples THEN 0
  ELSE VDistance(catmullRomInterpolate(cp, (s * Unit) \div SubSamples),
                 catmullRomInterpolate(cp, ((s + 1) * Unit) \div SubSamples))
         + SegmentLengthFrom(cp, s + 1)
SegmentLength(curve, i) == SegmentLengthFrom(CurveControl(curve, i), 0)

NoFrame == [radius |-> 0]

\* the main loop of buildTrackSections from control point i on: a roll section
\* for a point that carries a loop element, then the spline segment that leaves
\* the point.  loops is the set of indices (from 0) of the points with a loop.
\* (prevTangent / prevUp, which the loop maintains and nothing reads, are left out.)
LoopAtNone(loops, i) == FALSE
\* loopMap.get(point.id) for the point of index i
LoopAt(loops, i) == i \in loops
RECURSIVE SectionsFrom(_, _, _, _)
SectionsFrom(curve, loops, i, rollOffset) ==
  IF i >= Len(curve.points) THEN <<>>
  ELSE
    LET numPoints == Len(curve.points)
        totalSplineSegments == Segments(curve)
        splineStartT == (i * Unit) \div totalSplineSegments
        splineEndT == ((i + 1) * Unit) \div totalSplineSegments
    IN  (CHOOSE once \in {(
          (IF LoopAt(loops, i)
           THEN <<[type |-> "roll", startProgress |-> 0, endProgress |-> 0,
                   arcLength |-> RollArcLength, rollFrame |-> rollFrame,
                   splineStartT |-> 0, splineEndT |-> 0, pointIndex |-> i]>>
           ELSE <<>>)
          \o
          (IF i >= numPoints - 1 /\ ~curve.isLooped THEN <<>>
           ELSE <<[type |-> "spline", startProgress |-> 0, endProgress |-> 0,
                   arcLength |-> SegmentLength(curve, i), rollFrame |-> NoFrame,
                   splineStartT |-> splineStartT, splineEndT |-> splineEndT,
                   pointIndex |-> i]>>)
          \o
          SectionsFrom(curve, loops, i + 1,
                       IF i \in loops
                       THEN VAdd(rollOffset, VScale(rollFrame.forward, rollFrame.pitch))
                       ELSE rollOffset)) : rollFrame \in {IF i \in loops
             THEN computeRollFrame(curve, splineStartT, LoopRadius * Unit,
                                   LoopPitch * Unit, rollOffset)
             ELSE NoFrame}} : TRUE)

RECURSIVE LengthUpTo(_, _)
LengthUpTo(sections, k) ==
  IF k = 0 THEN 0 ELSE LengthUpTo(sections, k - 1) + sections[k].arcLength

\* "Assign progress ranges": runningLength / accumulatedLength before and after
\* each section
AssignProgress(sections) ==
  (CHOOSE once \in {(
    [k \in 1..Len(sections) |->
       [sections[k] EXCEPT
          !.startProgress = Quot(LengthUpTo(sections, k - 1), accumulatedLength),
          !.endProgress = Quot(LengthUpTo(sections, k), accumulatedLength)]]) : accumulatedLength \in {LengthUpTo(sections, Len(sections))}} : TRUE)

\* progress >= s.startProgress && progress < s.endProgress
InSection(progress, s) ==
  /\ Finite(s.startProgress) /\ Finite(s.endProgress)
  /\ progress >= s.startProgress /\ progress < s.endProgress

\* the offset the loop elements at points 0 .. upTo add to the track after them
RECURSIVE LoopOffsetUpTo(_, _, _)
LoopOffsetUpTo(curve, loops, upTo) ==
  IF upTo < 0 THEN Vec3(0, 0, 0)
  ELSE IF upTo \in loops
  THEN VAdd(LoopOffsetUpTo(curve, loops, upTo - 1),
            VScale(ThreeNormalize(CurveTangent(curve, (upTo * Unit) \div Segments(curve))),
                   LoopPitch * Unit))
  ELSE LoopOffsetUpTo(curve, loops, upTo - 1)

\* sampleHybridTrack(progress, sections, spline, loopSegments, trackPoints, isLooped).
\* kind "null": no sections; kind "sample": a sample, finite or (on a roll
\* section entered with a NaN parameter) all NaN; kind "throw": the spline
\* branch hands a NaN parameter to curve.getPoint, which indexes its point
\* array with NaN and reads a coordinate of undefined (TypeError).
MaxProgress == 9999
\* the section a (clamped) progress value is sampled in: the first one whose
\* range holds it, the last one when none does
SectionAt(p, sections) ==
  LET hits == {k \in 1..Len(sections) : InSection(p, sections[k])}
  IN  IF hits = {} THEN sections[Len(sections)]
      ELSE sections[CHOOSE k \in hits : \A j \in hits : k <= j]
\* (progress - section.startProgress) / (section.endProgress - section.startProgress)
LocalT(p, section) ==
  IF Finite(section.startProgress) /\ Finite(section.endProgress)
  THEN Quot(p - section.startProgress, section.endProgress - section.startProgress)
  ELSE NaN
\* the two branches of sampleHybridTrack, at the parameter localT of a section
sampleSection(section, localT, curve, loops) ==
  IF section.type = "roll"
  THEN IF Finite(localT)
       THEN (CHOOSE once \in {([kind |-> "sample", finite |-> TRUE, inRoll |-> TRUE,
                             point |-> s.point, tangent |-> s.tangent]) : s \in {sampleVerticalLoopAnalytically(section.rollFrame, localT)}} : TRUE)
       ELSE [kind |-> "sample", finite |-> FALSE, inRoll |-> TRUE]
  ELSE IF ~Finite(localT) THEN [kind |-> "throw"]
  ELSE
    LET splineT == section.splineStartT
                     + Mul(localT, section.splineEndT - section.splineStartT)
        rollOffset == LoopOffsetUpTo(curve, loops, section.pointIndex)
        totalLoopOffset == LoopOffsetUpTo(curve, loops, Len(curve.points) - 1)
        shifted == VAdd(CurvePoint(curve, splineT), rollOffset)
    IN  [kind |-> "sample", finite |-> TRUE, inRoll |-> FALSE,
         point |-> IF curve.isLooped
                   THEN VAdd(shifted, VScale(totalLoopOffset, 0 - splineT))
                   ELSE shifted,
         tangent |-> ThreeNormalize(CurveTangent(curve, splineT))]
sampleHybridTrack(progress, sections, curve, loops) ==
  IF Len(sections) = 0 THEN [kind |-> "null"]
  ELSE
    (CHOOSE once \in {(
      (CHOOSE once \in {(
        sampleSection(section, LocalT(p, section), curve, loops)) : section \in {SectionAt(p, sections)}} : TRUE)) : p \in {Max(0, Min(progress, MaxProgress))}} : TRUE)

\* "Find first peak": for (p = 0; p <= 0.5; p += 0.01).  The accumulated double
\* passes 0.5 on its 50th increment (0.01 is not a binary fraction), so the
\* walk visits p = 0, 0.01 .. 0.49.
PeakSteps == 50
PeakStride == 100
ClimbSlope == 1000
DefaultPeakProgress == 2000
PeakSamples(sections, curve, loops) ==
  [k \in 0..(PeakSteps - 1) |-> sampleHybridTrack(k * PeakStride, sections, curve, loops)]
\* the loop's variables before its first iteration (started: maxHeight is no
\* longer -Infinity; done: the loop has left through break or the TypeError)
PeakStart ==
  [started |-> FALSE, maxHeight |-> 0, peakProgress |-> DefaultPeakProgress,
   foundClimb |-> FALSE, done |-> FALSE, threw |-> FALSE]
\* one iteration of the loop, at p = k * 0.01
PeakIteration(sample, k, w) ==
  IF w.done THEN w
  ELSE IF sample.kind = "throw" THEN [w EXCEPT !.done = TRUE, !.threw = TRUE]
  ELSE IF sample.kind = "null" \/ ~sample.finite THEN w
  ELSE
    LET climb == w.foundClimb \/ sample.tangent.y > ClimbSlope
        higher == climb /\ (~w.started \/ sample.point.y > w.maxHeight)
        peak == IF higher THEN k * PeakStride ELSE w.peakProgress
    IN  [started |-> w.started \/ higher,
         maxHeight |-> IF higher THEN sample.point.y ELSE w.maxHeight,
         peakProgress |-> peak,
         foundClimb |-> climb,
         done |-> climb /\ sample.tangent.y < 0 - ClimbSlope /\ k * PeakStride > peak,
         threw |-> FALSE]
\* iterations lo .. hi in order
RECURSIVE PeakWalk(_, _, _, _)
PeakWalk(samples, lo, hi, w) ==
  IF lo = hi THEN PeakIteration(samples[lo], lo, w)
  ELSE (CHOOSE once \in {(PeakWalk(samples, (lo + hi) \div 2 + 1, hi, half)) : half \in {PeakWalk(samples, lo, (lo + hi) \div 2, w)}} : TRUE)

\* buildTrackSections(trackPoints, loopSegments, isLooped).  threw: the call
\* ended in the TypeError of sampleHybridTrack instead of returning.
buildTrackSections(trackPoints, loops, isLooped) ==
  IF Len(trackPoints) < 2
  THEN [sections |-> <<>>, totalArcLength |-> 0,
        firstPeakProgress |-> DefaultPeakProgress, threw |-> FALSE]
  ELSE
    (CHOOSE once \in {(
      (CHOOSE once \in {(
        (CHOOSE once \in {(
          [sections |-> sections,
           totalArcLength |-> LengthUpTo(sections, Len(sections)),
           firstPeakProgress |-> walk.peakProgress,
           threw |-> walk.threw]) : walk \in {PeakWalk(PeakSamples(sections, curve, loops), 0, PeakSteps - 1, PeakStart)}} : TRUE)) : sections \in {AssignProgress(SectionsFrom(curve, loops, 0, Vec3(0, 0, 0)))}} : TRUE)) : curve \in {getTrackCurve(trackPoints, isLooped)}} : TRUE)

\* ------------------------------------------------------------------------
\* validateTrack (PhysicsEngine.ts)
\* ------------------------------------------------------------------------
\* const dt = 0.016, const maxSteps = 10000
ValidateDt == 160
maxSteps == 10000
\* Infinity, the start of the running minima
Infinity == 2000 * 1000 * 1000
\* an issue has no pointIndex
NoIndex == 0 - 1
\* a ValidationIssue: message is the message without its interpolated numbers
\* (value, which repeats one of those numbers, is left out)
Issue(type, message) == [type |-> type, message |-> message, pointIndex |-> NoIndex]
IssueAt(type, message, i) == [type |-> type, message |-> message, pointIndex |-> i]

\* the running extrema before the first iteration of the simulation loop
SeenStart ==
  [maxVerticalG |-> 0, minVerticalG |-> Infinity, maxLateralG |-> 0, maxSpeed |-> 0,
   minSpeed |-> Infinity, minHeight |-> Infinity, maxGPoint |-> 0,
   lowSpeedPoint |-> 0 - Unit]
\* the updates of the extrema in one iteration, st being physics.getState()
Observe(seen, st) ==
  [maxVerticalG |-> IF st.gForceVertical > seen.maxVerticalG THEN st.gForceVertical
                    ELSE seen.maxVerticalG,
   maxGPoint |-> IF st.gForceVertical > seen.maxVerticalG THEN st.progress
                 ELSE seen.maxGPoint,
   minVerticalG |-> IF st.gForceVertical < seen.minVerticalG THEN st.gForceVertical
                    ELSE seen.minVerticalG,
   maxLateralG |-> IF Abs(st.gForceLateral) > seen.maxLateralG THEN Abs(st.gForceLateral)
                   ELSE seen.maxLateralG,
   maxSpeed |-> IF st.speed > seen.maxSpeed THEN st.speed ELSE seen.maxSpeed,
   minSpeed |-> IF st.speed < seen.minSpeed THEN st.speed ELSE seen.minSpeed,
   lowSpeedPoint |-> IF st.speed < seen.minSpeed THEN st.progress ELSE seen.lowSpeedPoint,
   minHeight |-> IF st.position.y < seen.minHeight THEN st.position.y ELSE seen.minHeight]

\* the two break conditions of the simulation loop
LoopBreaks(looped, steps, progress, startProgress) ==
  \/ ~looped /\ progress >= (99 * Unit) \div 100
  \/ looped /\ steps > 100 /\ Abs(progress - startProgress) < Unit \div 100
CapIgnored(steps) == FALSE
\* while (step < maxSteps) fails after step++
AtCap(steps) == steps + 1 >= maxSteps

\* "Generate issues based on simulation": the G force issues
GForceIssues(seen) ==
  (IF seen.maxVerticalG > 4 * Unit
   THEN <<Issue("error", "Extreme positive G-force")>>
   ELSE IF seen.maxVerticalG > (35 * Unit) \div 10
        THEN <<Issue("warning", "High positive G-force")>> ELSE <<>>)
  \o (IF seen.minVerticalG < 0 - Unit
      THEN <<Issue("warning", "Strong negative G-force (airtime)")>> ELSE <<>>)
  \o (IF seen.maxLateralG > (15 * Unit) \div 10
      THEN <<Issue("error", "Excessive lateral G-force")>>
      ELSE IF seen.maxLateralG > (12 * Unit) \div 10
           THEN <<Issue("warning", "High lateral G-force")>> ELSE <<>>)
\* the speed and height issues
MotionIssues(seen) ==
  (IF seen.maxSpeed > 45 * Unit THEN <<Issue("warning", "Very high speed")>> ELSE <<>>)
  \o (IF seen.minSpeed < Unit \div 2 /\ seen.lowSpeedPoint > Unit \div 10
      THEN <<Issue("error", "Car may stall")>> ELSE <<>>)
  \o (IF seen.minHeight < Unit \div 2
      THEN <<Issue("error", "Track goes underground or too close to ground")>>
      ELSE <<>>)

\* "Check for sudden direction changes" at the control point of index i (from
\* 0): acos(d) > 90 degrees when d < 0, > 60 degrees when d < 0.5
TurnIssue(points, i) ==
  (CHOOSE once \in {(
    IF d < 0 THEN <<IssueAt("error", "Sharp turn", i)>>
    ELSE IF d < Unit \div 2 THEN <<IssueAt("warning", "Tight turn", i)>>
    ELSE <<>>) : d \in {VDot(VNormalize(VSub(points[i + 1], points[i])),
                             VNormalize(VSub(points[i + 2], points[i + 1])))}} : TRUE)
\* for (let i = 1; i < trackPoints.length - 1; i++), up to index i
RECURSIVE TurnIssues(_, _)
TurnIssues(points, i) ==
  IF i < 1 THEN <<>> ELSE TurnIssues(points, i - 1) \o TurnIssue(points, i)

\* "Check for steep drops" between the control points of index i and i + 1
DropIssue(points, i) ==
  (CHOOSE once \in {(
    IF horizontalDist > Unit \div 10
         /\ Abs(DivU(points[i + 2].y - points[i + 1].y, horizontalDist)) > Unit
    THEN <<IssueAt("warning", "Very steep section", i)>>
    ELSE <<>>) : horizontalDist \in {VLength(Vec3(points[i + 2].x - points[i + 1].x, 0,
                                                  points[i + 2].z - points[i + 1].z))}} : TRUE)
\* for (let i = 0; i < trackPoints.length - 1; i++), up to index i
RECURSIVE DropIssues(_, _)
DropIssues(points, i) ==
  IF i < 0 THEN <<>> ELSE DropIssues(points, i - 1) \o DropIssue(points, i)

\* the issues validateTrack returns after its simulation loop
ReportedIssues(points, seen) ==
  (CHOOSE once \in {(
    IF found = <<>> THEN <<Issue("info", "Track validated")>> ELSE found) : found \in {GForceIssues(seen) \o MotionIssues(seen)
        \o TurnIssues(points, Len(points) - 2) \o DropIssues(points, Len(points) - 2)}} : TRUE)

\* the simulator without the clamp of calculateGForces: what it stores after a
\* substep are the unclamped G components
Unclamped(eng) ==
  (CHOOSE once \in {(
    (CHOOSE once \in {(
      [e EXCEPT !.state.gForceVertical = g.vertical,
                !.state.gForceLateral = g.lateral,
                !.state.gForceTotal = VLength(Vec3(g.vertical, g.lateral, g.longitudinal)),
                !.state.isAirtime = g.vertical < Unit \div 2]) : g \in {GForces(e.state.acceleration, e.state.trackSample, e.state.speed)}} : TRUE)) : e \in {eng}} : TRUE)
RECURSIVE SubstepsUnclamped(_, _, _, _)
SubstepsUnclamped(eng, spl, dt, n) ==
  IF n = 0 THEN eng
  ELSE (CHOOSE once \in {(Unclamped(stepInternal(before, spl, dt))) : before \in {SubstepsUnclamped(eng, spl, dt, n - 1)}} : TRUE)
\* step(dt) of the simulator without the clamp
stepUnclamped(eng, dt) ==
  IF eng.spline = 0 THEN eng
  ELSE (CHOOSE once \in {(
         IF ZeroLength(spl) THEN eng
         ELSE SubstepsUnclamped(eng, spl, SubDt(dt), PHYSICS_SUBSTEPS)) : spl \in {Splines[eng.spline]}} : TRUE)

\* a call of validateTrack: where it is (phase "idle": none yet, "loop": in the
\* simulation loop, "issues": past the loop, "done": returned), the track
\* TrackList[track] it was given, its simulator, its loop variables and the
\* issues returned.  calls counts the calls of physics.step; unclamped and
\* unclampedSeen are the simulator and extrema of the same call without the
\* clamp of calculateGForces; lowAfterTenth records a step beyond 10% of the
\* track at a speed below 0.5 m/s; wrapped records a step in which the car
\* passed the end of a closed track (its arcLength fell).
ValidationIdle ==
  [phase |-> "idle", track |-> 0, physics |-> NewPhysics, step |-> 0, calls |-> 0,
   seen |-> SeenStart, startProgress |-> 0, unclamped |-> NewPhysics,
   unclampedSeen |-> SeenStart, lowAfterTenth |-> FALSE, wrapped |-> FALSE,
   issues |-> <<>>]
\* validateTrack up to its simulation loop
ValidationStart(k) ==
  IF Len(TrackList[k].points) < 2
  THEN [ValidationIdle EXCEPT !.phase = "done", !.track = k,
          !.issues = <<Issue("error", "Track needs at least 2 points")>>]
  ELSE (CHOOSE once \in {(
         [ValidationIdle EXCEPT !.phase = "loop", !.track = k, !.physics = sim,
                                !.unclamped = sim,
                                !.startProgress = sim.state.progress]) : sim \in {setSpeed(reset(setChainLift(setTrack(NewPhysics, k), TRUE)), Unit)}} : TRUE)
\* one iteration of the simulation loop
ValidationIteration(v) ==
  (CHOOSE once \in {(
    (CHOOSE once \in {(
      [v EXCEPT !.physics = sim,
                !.unclamped = wide,
                !.calls = @ + 1,
                !.seen = Observe(@, sim.state),
                !.unclampedSeen = Observe(@, wide.state),
                !.lowAfterTenth = @ \/ (sim.state.progress > Unit \div 10
                                          /\ sim.state.speed < Unit \div 2),
                !.wrapped = @ \/ sim.state.arcLength < v.physics.state.arcLength,
                !.step = IF breaks THEN @ ELSE @ + 1,
                !.phase = IF breaks \/ AtCap(v.step) THEN "issues" ELSE "loop"]) : breaks \in {LoopBreaks(TrackList[v.track].isLooped, v.step, sim.state.progress,
                               v.startProgress)}} : TRUE)) : sim \in {step(v.physics, ValidateDt)}, wide \in {stepUnclamped(v.unclamped, ValidateDt)}} : TRUE)

\* ------------------------------------------------------------------------
\* The store with its undo history (useRollerCoaster.tsx).  The store is the
\* record s; the id "point-n" is the number n, a null selectedPointId is
\* NoPoint, and a hasLoop that was never set (undefined) is FALSE.
\* ------------------------------------------------------------------------
maxHistorySize == 50
NoPoint == 0
\* the store as created, and the module's pointCounter
NewStore ==
  [mode |-> "build", trackPoints |-> <<>>, loopSegments |-> <<>>,
   selectedPointId |-> NoPoint, rideProgress |-> 0, isRiding |-> FALSE,
   isLooped |-> FALSE, history |-> <<>>, historyIndex |-> 0 - 1, pointCounter |-> 0]

\* createHistoryEntry(state)
createHistoryEntry(s) ==
  [trackPoints |-> s.trackPoints, loopSegments |-> s.loopSegments, isLooped |-> s.isLooped]

\* while (newHistory.length > maxHistorySize) newHistory.shift()
Unlimited(h) == h
Limited(h) ==
  IF Len(h) > maxHistorySize THEN SubSeq(h, Len(h) - maxHistorySize + 1, Len(h)) ELSE h

\* pushHistory()
pushHistory(s) ==
  (CHOOSE once \in {(
    [s EXCEPT !.history = newHistory, !.historyIndex = Len(newHistory) - 1]) : newHistory \in {Limited(Append(SubSeq(s.history, 1, s.historyIndex + 1),
                                     createHistoryEntry(s)))}} : TRUE)

\* trackPoints.findIndex(p => p.id === id), from 0; -1 when there is none
FindIndex(tps, id) ==
  IF \E i \in 1..Len(tps) : tps[i].id = id
  THEN (CHOOSE i \in 1..Len(tps) : tps[i].id = id /\ \A j \in 1..(i - 1) : tps[j].id # id) - 1
  ELSE 0 - 1
\* newPoints.splice(index + 1, 0, point)
Splice(tps, index, point) ==
  SubSeq(tps, 1, index + 1) \o <<point>> \o SubSeq(tps, index + 2, Len(tps))
\* trackPoints.filter(point => point.id !== id)
WithoutPoint(tps, id) == SelectSeq(tps, LAMBDA p : p.id # id)
\* loopSegments.filter(seg => seg.entryPointId !== id)
WithoutLoopAt(segs, id) == SelectSeq(segs, LAMBDA seg : seg.entryPointId # id)
\* trackPoints.map(p => p.id === id ? {...p, hasLoop} : p)
WithHasLoop(tps, id, hasLoop) ==
  [i \in 1..Len(tps) |-> IF tps[i].id = id THEN [tps[i] EXCEPT !.hasLoop = hasLoop] ELSE tps[i]]
NewPoint(id, position, tilt) ==
  [id |-> id, position |-> position, tilt |-> tilt, hasLoop |-> FALSE]

\* addTrackPoint(position)
addTrackPoint(s, position) ==
  (CHOOSE once \in {(
    [h EXCEPT !.pointCounter = h.pointCounter + 1,
              !.trackPoints = Append(h.trackPoints, NewPoint(h.pointCounter + 1, position, 0))]) : h \in {pushHistory(s)}} : TRUE)

\* updateTrackPointTilt(id, tilt)
updateTrackPointTilt(s, id, tilt) ==
  (CHOOSE once \in {(
    [h EXCEPT !.trackPoints =
       [i \in 1..Len(h.trackPoints) |->
          IF h.trackPoints[i].id = id THEN [h.trackPoints[i] EXCEPT !.tilt = tilt]
          ELSE h.trackPoints[i]]]) : h \in {pushHistory(s)}} : TRUE)

\* removeTrackPoint(id)
removeTrackPoint(s, id) ==
  (CHOOSE once \in {(
    [h EXCEPT !.trackPoints = WithoutPoint(h.trackPoints, id),
              !.loopSegments = WithoutLoopAt(h.loopSegments, id),
              !.selectedPointId = IF h.selectedPointId = id THEN NoPoint
                                  ELSE h.selectedPointId]) : h \in {pushHistory(s)}} : TRUE)

\* entryPoint.hasLoop, the test that keeps a second loop element off a point
HasLoopIgnored(point) == FALSE
HasLoop(point) == point.hasLoop
\* createLoopAtPoint(id); the loop element is { id, entryPointId, radius: 5,
\* pitch: 12 }, its id "loop-" + Date.now() left out
createLoopAtPoint(s, id) ==
  (CHOOSE once \in {(
    (CHOOSE once \in {(
      IF pointIndex = 0 - 1 THEN h
      ELSE IF HasLoop(h.trackPoints[pointIndex + 1]) THEN h
      ELSE [h EXCEPT !.trackPoints = WithHasLoop(h.trackPoints, id, TRUE),
                     !.loopSegments = Append(h.loopSegments,
                                             [entryPointId |-> id, radius |-> 5,
                                              pitch |-> 12])]) : pointIndex \in {FindIndex(h.trackPoints, id)}} : TRUE)) : h \in {pushHistory(s)}} : TRUE)

\* removeLoopAtPoint(id)
removeLoopAtPoint(s, id) ==
  (CHOOSE once \in {(
    (CHOOSE once \in {(
      IF pointIndex = 0 - 1 THEN h
      ELSE IF ~h.trackPoints[pointIndex + 1].hasLoop THEN h
      ELSE [h EXCEPT !.trackPoints = WithHasLoop(h.trackPoints, id, FALSE),
                     !.loopSegments = WithoutLoopAt(h.loopSegments, id)]) : pointIndex \in {FindIndex(h.trackPoints, id)}} : TRUE)) : h \in {pushHistory(s)}} : TRUE)

\* insertTrackPointAfter(afterId, position)
insertTrackPointAfter(s, afterId, position) ==
  (CHOOSE once \in {(
    (CHOOSE once \in {(
      IF index = 0 - 1
      THEN [h EXCEPT !.pointCounter = id,
                     !.trackPoints = Append(h.trackPoints, NewPoint(id, position, 0))]
      ELSE [h EXCEPT !.pointCounter = id,
                     !.trackPoints = Splice(h.trackPoints, index, NewPoint(id, position, 0)),
                     !.selectedPointId = id]) : index \in {FindIndex(h.trackPoints, afterId)}, id \in {h.pointCounter + 1}} : TRUE)) : h \in {pushHistory(s)}} : TRUE)

\* the place duplicateTrackPoint gives its copy: half way to the next point,
\* or 3 m on from the last point in the direction it was reached, or 3 m along x
DuplicatePosition(tps, index) ==
  LET sourcePoint == tps[index + 1]
  IN  IF index + 2 <= Len(tps)
      THEN VAdd(sourcePoint.position,
                VScale(VSub(tps[index + 2].position, sourcePoint.position), Unit \div 2))
      ELSE IF index >= 1
      THEN VAdd(sourcePoint.position,
                VScale(ThreeNormalize(VSub(sourcePoint.position, tps[index].position)),
                       3 * Unit))
      ELSE VAdd(sourcePoint.position, Vec3(3 * Unit, 0, 0))
\* duplicateTrackPoint(id)
duplicateTrackPoint(s, id) ==
  (CHOOSE once \in {(
    (CHOOSE once \in {(
      IF index = 0 - 1 THEN [h EXCEPT !.pointCounter = newId]
      ELSE [h EXCEPT !.pointCounter = newId,
                     !.trackPoints =
                        Splice(h.trackPoints, index,
                               NewPoint(newId, DuplicatePosition(h.trackPoints, index),
                                        h.trackPoints[index + 1].tilt)),
                     !.selectedPointId = newId]) : index \in {FindIndex(h.trackPoints, id)}, newId \in {h.pointCounter + 1}} : TRUE)) : h \in {pushHistory(s)}} : TRUE)

\* clearTrack()
clearTrack(s) ==
  [pushHistory(s) EXCEPT !.trackPoints = <<>>, !.loopSegments = <<>>,
                         !.selectedPointId = NoPoint, !.rideProgress = 0,
                         !.isRiding = FALSE, !.history = <<>>, !.historyIndex = 0 - 1]

\* startRide()
startRide(s) ==
  IF Len(s.trackPoints) >= 2
  THEN [s EXCEPT !.mode = "ride", !.isRiding = TRUE, !.rideProgress = 0]
  ELSE s
\* stopRide()
stopRide(s) == [s EXCEPT !.mode = "build", !.isRiding = FALSE, !.rideProgress = 0]

\* trackPoints.reduce((max, p) => Math.max(max, number of p.id), pointCounter)
RECURSIVE MaxPointId(_, _)
MaxPointId(tps, max) ==
  IF tps = <<>> THEN max ELSE MaxPointId(Tail(tps), Max(max, Head(tps).id))
\* what undo and redo set from a history entry
Restored(s, entry, historyIndex) ==
  [s EXCEPT !.trackPoints = entry.trackPoints, !.loopSegments = entry.loopSegments,
            !.isLooped = entry.isLooped, !.historyIndex = historyIndex,
            !.selectedPointId = NoPoint,
            !.pointCounter = MaxPointId(entry.trackPoints, s.pointCounter)]
canUndo(s) == s.historyIndex >= 0
canRedo(s) == s.historyIndex < Len(s.history) - 1
\* undo(): history[historyIndex], the entry pushed before the latest edit
undo(s) ==
  IF s.historyIndex < 0 THEN s
  ELSE Restored(s, s.history[s.historyIndex + 1], s.historyIndex - 1)
\* redo(): history[historyIndex + 1]
redo(s) ==
  IF s.historyIndex >= Len(s.history) - 1 THEN s
  ELSE Restored(s, s.history[s.historyIndex + 2], s.historyIndex + 1)

\* ------------------------------------------------------------------------
\* The WASM loader (physicsEngine.ts) and the usePhysicsSimulation hook
\* ------------------------------------------------------------------------
\* The loader state: moduleInstance, loadPromise and loadError are 0 for null;
\* a load is known by its number, the place of its stage in loads, and the
\* module it produces, the error it throws and the promise of its outcome
\* carry that number.  hooks holds the state of each component using
\* usePhysicsSimulation, sims the PhysicsSimulation objects constructed.
MaxComponents == 3
Components == 1..MaxComponents
NewHook ==
  [phase |-> "initial", result |-> [kind |-> "none", id |-> 0], settled |-> FALSE,
   observed |-> [ok |-> FALSE, id |-> 0], isWasmLoaded |-> FALSE, current |-> 0]
NotLoaded ==
  [moduleInstance |-> 0, loadPromise |-> 0, loadError |-> 0, loads |-> <<>>,
   hooks |-> [c \in Components |-> NewHook], sims |-> <<>>]

\* if (loadPromise)
PromiseIgnored(s) == FALSE
PromiseSet(s) == s.loadPromise # 0

\* loadPhysicsEngine(): the loader state after the call and what the caller's
\* promise settles with: a value, an error, or the outcome of a load
loadPhysicsEngine(s) ==
  IF s.moduleInstance # 0
  THEN [loader |-> s, result |-> [kind |-> "value", id |-> s.moduleInstance]]
  ELSE IF PromiseSet(s)
  THEN [loader |-> s, result |-> [kind |-> "promise", id |-> s.loadPromise]]
  ELSE IF s.loadError # 0
  THEN [loader |-> s, result |-> [kind |-> "error", id |-> s.loadError]]
  ELSE [loader |-> [s EXCEPT !.loads = Append(@, "fetch"),
                             !.loadPromise = Len(s.loads) + 1],
        result |-> [kind |-> "promise", id |-> Len(s.loads) + 1]]

\* the catch block of the load
LoadFails(s, n) == [s EXCEPT !.loads[n] = "rejected", !.loadError = n]

\* a caller's promise has settled, and with what
Settled(s, result) ==
  result.kind \in {"value", "error"}
  \/ (result.kind = "promise" /\ s.loads[result.id] \in {"resolved", "rejected"})
Outcome(s, result) ==
  IF result.kind = "promise"
  THEN [ok |-> s.loads[result.id] = "resolved", id |-> result.id]
  ELSE [ok |-> result.kind = "value", id |-> result.id]

\* new PhysicsSimulation() by component c
PhysicsSimulation(s, c) == [owner |-> c, engine |-> s.moduleInstance # 0]
\* PhysicsSimulation.dispose()
dispose(sim) == [sim EXCEPT !.engine = FALSE]

\* ------------------------------------------------------------------------
\* State
\* ------------------------------------------------------------------------
VARIABLES
  physics,       \* the RollerCoasterPhysics object
  stage,         \* where its caller is: "new", "track", "reset", "speed", "run",
                 \* and "done" once a ride view has let go of it
  frameDt,       \* the dt the caller passes to step() during this ride (0: none yet)
  substeps,      \* the simulator before and after each substep of the last step()
  laps,          \* wraps of a closed track since the last reset / ride start
  trackPoints,   \* store: the control points, each [position, tilt]
  loopSegments,  \* store: the indices (from 0) of the points that carry a loop element
  isLooped,      \* store: closed track
  hasChainLift,  \* store
  mode,          \* store: "build" or "ride"
  isRiding,      \* store
  rideProgress,  \* store
  use2DMode,     \* App: the 2D ride view instead of the 3D ride camera
  built,         \* the sections memoised from trackPoints, loopSegments, isLooped
  validation,    \* the call of validateTrack under way or last returned
  editor,        \* the store as the editor and the keyboard drive it, with its
                 \* undo history and the module's pointCounter
  wasm           \* the WASM loader's module state, the components that use the
                 \* usePhysicsSimulation hook, and the native engines created

simVars == <<physics, stage, frameDt, substeps, laps>>
trackVars == <<trackPoints, loopSegments, isLooped, built>>
rideVars == <<hasChainLift, mode, isRiding, rideProgress, use2DMode>>
vars == <<physics, stage, frameDt, substeps, laps, trackPoints, loopSegments, isLooped,
          hasChainLift, mode, isRiding, rideProgress, use2DMode, built, validation,
          editor, wasm>>

\* inputs
\* the tracks ridden: those of at most 10 m (longer ones are only validated)
MaxRideLength == 10 * Unit
RideTracks == {k \in 1..Len(TrackList) : Splines[k].totalLength <= MaxRideLength}
Dts == {400, 1000}                           \* 40 ms frames and 100 ms hitches
Speeds == {0, Unit, 10 * Unit, 60 * Unit}    \* setSpeed arguments
Progresses == {Unit \div 2}                  \* setProgress arguments
\* closed-track laps explored
MaxLaps == 1
\* the editor: control points placed, and where
MaxPoints == 3
Positions == {Pt(0, 0, 0), Pt(4, 3, 0), Pt(8, 0, 0)}

Positioned(tps) == [i \in 1..Len(tps) |-> tps[i].position]
\* the sections the components memoise from the store's track
Sections(tps, loops, looped) == buildTrackSections(Positioned(tps), loops, looped)
\* a saved coaster as the store's control points
StorePoints(trk) ==
  [i \in 1..Len(trk.points) |-> [position |-> trk.points[i], tilt |-> trk.tilts[i]]]
BuiltList ==
  [k \in 1..Len(TrackList) |->
     buildTrackSections(TrackList[k].points, {}, TrackList[k].isLooped)]

\* new RollerCoasterPhysics(), and the store as created
Init ==
  /\ physics = NewPhysics
  /\ stage = "new"
  /\ frameDt = 0
  /\ substeps = <<>>
  /\ laps = 0
  /\ trackPoints = <<>>
  /\ loopSegments = {}
  /\ isLooped = FALSE
  /\ hasChainLift = TRUE
  /\ mode = "build"
  /\ isRiding = FALSE
  /\ rideProgress = 0
  /\ use2DMode = FALSE
  /\ built = buildTrackSections(<<>>, {}, FALSE)
  /\ validation = ValidationIdle
  /\ editor = NewStore
  /\ wasm = NotLoaded

\* ------------- the simulator, driven call by call -------------
\* new RollerCoasterPhysics()
Construct ==
  /\ physics' = NewPhysics
  /\ stage' = "new"
  /\ frameDt' = 0
  /\ substeps' = <<>>
  /\ laps' = 0
  /\ UNCHANGED <<trackVars, rideVars>>
  /\ UNCHANGED <<validation, editor, wasm>>

\* setChainLift(enabled), on a simulator whose chain lift is still off
SetChainLift(enabled) ==
  /\ stage \in {"new", "track"}
  /\ ~physics.hasChainLift
  /\ physics' = setChainLift(physics, enabled)
  /\ UNCHANGED <<stage, frameDt, substeps, laps, trackVars, rideVars>>
  /\ UNCHANGED <<validation, editor, wasm>>

SetTrack(k) ==
  /\ stage = "new"
  /\ physics' = setTrack(physics, k)
  /\ stage' = "track"
  /\ UNCHANGED <<frameDt, substeps, laps, trackVars, rideVars>>
  /\ UNCHANGED <<validation, editor, wasm>>

Reset ==
  /\ stage \in {"track", "speed", "run"}
  /\ physics' = reset(physics)
  /\ stage' = "reset"
  /\ frameDt' = 0
  /\ substeps' = <<>>
  /\ laps' = 0
  /\ UNCHANGED <<trackVars, rideVars>>
  /\ UNCHANGED <<validation, editor, wasm>>

SetProgress(p) ==
  /\ stage = "reset"
  /\ physics' = setProgress(physics, p)
  /\ UNCHANGED <<stage, frameDt, substeps, laps, trackVars, rideVars>>
  /\ UNCHANGED <<validation, editor, wasm>>

SetSpeed(sp) ==
  /\ stage = "reset"
  /\ physics' = setSpeed(physics, sp)
  /\ stage' = "speed"
  /\ UNCHANGED <<frameDt, substeps, laps, trackVars, rideVars>>
  /\ UNCHANGED <<validation, editor, wasm>>

\* the ride is over: an open track's progress has reached 1, or a closed
\* track has been lapped MaxLaps times
RideOver ==
  /\ physics.spline # 0
  /\ (CHOOSE once \in {(
       /\ spl.totalLength > 0
       /\ IF spl.isLooped THEN laps >= MaxLaps ELSE physics.state.progress >= Unit) : spl \in {Splines[physics.spline]}} : TRUE)

\* step(dt): the first step of a ride fixes the caller's frame interval
Step(dt) ==
  /\ stage \in {"reset", "speed", "run"}
  /\ stage = "run" => dt = frameDt
  /\ ~RideOver
  /\ substeps' = StepRun(physics, dt)
  /\ physics' = IF substeps' = <<>> THEN physics ELSE substeps'[PHYSICS_SUBSTEPS + 1]
  /\ stage' = "run"
  /\ frameDt' = dt
  /\ laps' = IF physics'.state.arcLength < physics.state.arcLength THEN laps + 1 ELSE laps
  /\ UNCHANGED <<trackVars, rideVars>>
  /\ UNCHANGED <<validation, editor, wasm>>

Next ==
  \/ Construct
  \/ \E b \in BOOLEAN : SetChainLift(b)
  \/ \E k \in RideTracks : SetTrack(k)
  \/ Reset
  \/ \E p \in Progresses : SetProgress(p)
  \/ \E sp \in Speeds : SetSpeed(sp)
  \/ \E dt \in Dts : Step(dt)

Spec == Init /\ [][Next]_vars

\* a ride in which, once stepping has begun, the caller does nothing but call
\* step(): the animation loop keeps calling it for as long as it is enabled
StepAny == \E dt \in Dts : Step(dt)
NextLive ==
  \/ stage # "run" /\ Next
  \/ StepAny
SpecLive == Init /\ [][NextLive]_vars /\ WF_vars(StepAny)

\* ------------- the track editor (store) and the memoised sections -------------
\* addTrackPoint(position)
AddTrackPoint(position) ==
  /\ Len(trackPoints) < MaxPoints
  /\ trackPoints' = Append(trackPoints, [position |-> position, tilt |-> 0])
  /\ built' = Sections(trackPoints', loopSegments, isLooped)
  /\ UNCHANGED <<loopSegments, isLooped, simVars, rideVars>>
  /\ UNCHANGED <<validation, editor, wasm>>

\* createLoopAtPoint(id), id being the point at index i
CreateLoopAtPoint(i) ==
  /\ i < Len(trackPoints)
  /\ i \notin loopSegments
  /\ loopSegments' = loopSegments \cup {i}
  /\ built' = Sections(trackPoints, loopSegments', isLooped)
  /\ UNCHANGED <<trackPoints, isLooped, simVars, rideVars>>
  /\ UNCHANGED <<validation, editor, wasm>>

\* setIsLooped(looped)
SetIsLooped(looped) ==
  /\ looped # isLooped
  /\ isLooped' = looped
  /\ built' = Sections(trackPoints, loopSegments, looped)
  /\ UNCHANGED <<trackPoints, loopSegments, simVars, rideVars>>
  /\ UNCHANGED <<validation, editor, wasm>>

\* clearTrack()
ClearTrack ==
  /\ trackPoints # <<>>
  /\ trackPoints' = <<>>
  /\ loopSegments' = {}
  /\ rideProgress' = 0
  /\ isRiding' = FALSE
  /\ built' = Sections(<<>>, {}, isLooped)
  /\ UNCHANGED <<isLooped, hasChainLift, mode, use2DMode, simVars>>
  /\ UNCHANGED <<validation, editor, wasm>>

NextSections ==
  \/ \E position \in Positions : AddTrackPoint(position)
  \/ \E i \in 0..(MaxPoints - 1) : CreateLoopAtPoint(i)
  \/ \E b \in BOOLEAN : SetIsLooped(b)
  \/ ClearTrack

SpecSections == Init /\ [][NextSections]_vars

\* ------------- rides: the store, the 2D ride view and the 3D ride camera -------------
\* the coasters saved in the browser's storage
SavedCoasters ==
  {k \in 1..Len(TrackList) :
     TrackList[k] \in {FlatTrack, MoundTrack, DropTrack, CircuitTrack, StubTrack, PointTrack}}
\* the frame intervals useFrame is handed (17 ms, 33 ms)
Deltas == {170, 330}
\* store: rideSpeed as created
rideSpeed == Unit
\* RideCamera: chainSpeed = 0.9 * rideSpeed, constantSpeed = 12.0
ChainSpeed == 9000
ConstantSpeed == 12 * Unit
\* animate: state.progress >= 0.99
RideComplete == (99 * Unit) \div 100

\* loadCoaster(id), the saved coaster being TrackList[k] without loop elements,
\* saved with hasChainLift = chain; offered while building
LoadCoaster(k, chain) ==
  /\ mode = "build"
  /\ trackPoints' = StorePoints(TrackList[k])
  /\ loopSegments' = {}
  /\ isLooped' = TrackList[k].isLooped
  /\ hasChainLift' = chain
  /\ rideProgress' = 0
  /\ isRiding' = FALSE
  /\ mode' = "build"
  /\ built' = BuiltList[k]
  /\ physics' = NewPhysics
  /\ stage' = "new"
  /\ frameDt' = 0
  /\ substeps' = <<>>
  /\ laps' = 0
  /\ UNCHANGED use2DMode
  /\ UNCHANGED <<validation, editor, wasm>>

\* setHasChainLift(hasChain), offered while building
SetHasChainLift(hasChain) ==
  /\ mode = "build"
  /\ hasChain # hasChainLift
  /\ hasChainLift' = hasChain
  /\ UNCHANGED <<simVars, trackVars, mode, isRiding, rideProgress, use2DMode>>
  /\ UNCHANGED <<validation, editor, wasm>>

\* App: setUse2DMode(prev => !prev), between rides; by then the cleanup of the
\* 2D ride view has let go of its simulator (physicsRef.current = null)
SetUse2DMode ==
  /\ ~isRiding
  /\ use2DMode' = ~use2DMode
  /\ physics' = NewPhysics
  /\ stage' = "new"
  /\ frameDt' = 0
  /\ substeps' = <<>>
  /\ laps' = 0
  /\ UNCHANGED <<trackVars, hasChainLift, mode, isRiding, rideProgress>>
  /\ UNCHANGED <<validation, editor, wasm>>

\* startRide(), offered while building
StartRide ==
  /\ mode = "build"
  /\ Len(trackPoints) >= 2
  /\ mode' = "ride"
  /\ isRiding' = TRUE
  /\ rideProgress' = 0
  /\ laps' = 0
  /\ UNCHANGED <<physics, stage, frameDt, substeps, trackVars, hasChainLift, use2DMode>>
  /\ UNCHANGED <<validation, editor, wasm>>

\* stopRide(), by the rider; the ride view is unmounted
StopRide ==
  /\ mode = "ride"
  /\ mode' = "build"
  /\ isRiding' = FALSE
  /\ rideProgress' = 0
  /\ stage' = "done"
  /\ UNCHANGED <<physics, frameDt, substeps, laps, trackVars, hasChainLift, use2DMode>>
  /\ UNCHANGED <<validation, editor, wasm>>

\* Canvas2DRideView, "Initialize physics and track", the store's track being
\* TrackList[k]
Canvas2DInit(k) ==
  /\ isRiding /\ use2DMode
  /\ stage \in {"new", "done"}
  /\ Len(trackPoints) >= 2
  /\ trackPoints = StorePoints(TrackList[k]) /\ isLooped = TrackList[k].isLooped
  /\ physics' = setSpeed(reset(setChainLift(setTrack(NewPhysics, k), hasChainLift)), Unit)
  /\ stage' = "speed"
  /\ frameDt' = 0
  /\ substeps' = <<>>
  /\ laps' = 0
  /\ UNCHANGED <<trackVars, rideVars>>
  /\ UNCHANGED <<validation, editor, wasm>>

\* Canvas2DRideView, animate: one frame, elapsed after the frame before it
\* (the frames of one ride are equally long; a closed track is ridden for
\* MaxLaps laps)
Animate(elapsed) ==
  /\ isRiding /\ use2DMode
  /\ stage \in {"speed", "run"}
  /\ stage = "run" => elapsed = frameDt
  /\ laps < MaxLaps
  /\ substeps' = StepRun(physics, Min(elapsed, MaxDt))
  /\ physics' = IF substeps' = <<>> THEN physics ELSE substeps'[PHYSICS_SUBSTEPS + 1]
  /\ frameDt' = elapsed
  /\ laps' = IF physics'.state.arcLength < physics.state.arcLength THEN laps + 1 ELSE laps
  /\ IF ~isLooped /\ physics'.state.progress >= RideComplete
     THEN /\ mode' = "build"
          /\ isRiding' = FALSE
          /\ rideProgress' = 0
          /\ stage' = "done"
     ELSE /\ stage' = "run"
          /\ UNCHANGED <<mode, isRiding, rideProgress>>
  /\ UNCHANGED <<trackVars, hasChainLift, use2DMode>>
  /\ UNCHANGED <<validation, editor, wasm>>

\* RideCamera, useFrame((_, delta) => ...): one frame of the 3D ride
UseFrame(delta) ==
  /\ isRiding /\ ~use2DMode
  /\ ~built.threw /\ Len(built.sections) > 0
  /\ sampleHybridTrack(rideProgress, built.sections,
                       getTrackCurve(Positioned(trackPoints), isLooped),
                       loopSegments).kind = "sample"
  /\ laps < MaxLaps
  /\ LET speed == IF hasChainLift /\ rideProgress < built.firstPeakProgress
                  THEN Mul(ChainSpeed, rideSpeed) ELSE Mul(ConstantSpeed, rideSpeed)
         newProgress == rideProgress + Quot(Mul(speed, delta), built.totalArcLength)
     IN  IF newProgress >= Unit /\ ~isLooped
         THEN /\ mode' = "build"
              /\ isRiding' = FALSE
              /\ rideProgress' = 0
              /\ UNCHANGED laps
         ELSE /\ rideProgress' = IF newProgress >= Unit THEN newProgress % Unit
                                 ELSE newProgress
              /\ laps' = IF newProgress >= Unit THEN laps + 1 ELSE laps
              /\ UNCHANGED <<mode, isRiding>>
  /\ UNCHANGED <<physics, stage, frameDt, substeps, trackVars, hasChainLift, use2DMode>>
  /\ UNCHANGED <<validation, editor, wasm>>

NextRide ==
  \/ \E k \in SavedCoasters, chain \in BOOLEAN : LoadCoaster(k, chain)
  \/ \E b \in BOOLEAN : SetHasChainLift(b)
  \/ SetUse2DMode
  \/ StartRide
  \/ StopRide
  \/ \E k \in SavedCoasters : Canvas2DInit(k)
  \/ \E elapsed \in Dts : Animate(elapsed)
  \/ \E delta \in Deltas : UseFrame(delta)

SpecRide == Init /\ [][NextRide]_vars

\* ------------- validateTrack -------------
\* validateTrack(trackPoints, isLooped) is called with the track TrackList[k]
Validate(k) ==
  /\ validation.phase \in {"idle", "done"}
  /\ validation' = ValidationStart(k)
  /\ UNCHANGED <<simVars, trackVars, rideVars, editor, wasm>>

\* one iteration of its simulation loop
ValidateIterate ==
  /\ validation.phase = "loop"
  /\ validation' = ValidationIteration(validation)
  /\ UNCHANGED <<simVars, trackVars, rideVars, editor, wasm>>

\* the issues are generated and returned
ValidateReport ==
  /\ validation.phase = "issues"
  /\ validation' = [validation EXCEPT
                      !.phase = "done",
                      !.issues = ReportedIssues(TrackList[validation.track].points,
                                                validation.seen)]
  /\ UNCHANGED <<simVars, trackVars, rideVars, editor, wasm>>

NextValidate ==
  \/ \E k \in 1..Len(TrackList) : Validate(k)
  \/ ValidateIterate
  \/ ValidateReport

SpecValidate == Init /\ [][NextValidate]_vars
\* a call that has begun runs on: nothing suspends validateTrack
SpecValidateLive ==
  Init /\ [][NextValidate]_vars /\ WF_vars(ValidateIterate) /\ WF_vars(ValidateReport)

\* ------------- the editor: the store's edits, undo and redo, and rides -------------
\* the points on the track at once, the ids handed out, and the places clicked
MaxEditorPoints == 3
MaxPointCounter == 4
EditorPositions == {Pt(0, 0, 0), Pt(4, 3, 0)}
EditorTilts == {10}
PointIds(s) == {s.trackPoints[i].id : i \in 1..Len(s.trackPoints)}
\* the build-mode user interface is up, and there is room for one more point
Building == editor.mode = "build"
RoomForPoint ==
  /\ Len(editor.trackPoints) < MaxEditorPoints
  /\ editor.pointCounter < MaxPointCounter
Edit(s) ==
  /\ editor' = s
  /\ UNCHANGED <<simVars, trackVars, rideVars, validation, wasm>>

EditorAddTrackPoint(position) ==
  /\ Building /\ RoomForPoint
  /\ Edit(addTrackPoint(editor, position))
EditorInsertTrackPointAfter(afterId, position) ==
  /\ Building /\ RoomForPoint
  /\ Edit(insertTrackPointAfter(editor, afterId, position))
EditorDuplicateTrackPoint(id) ==
  /\ Building /\ RoomForPoint
  /\ Edit(duplicateTrackPoint(editor, id))
EditorUpdateTrackPointTilt(id, tilt) ==
  /\ Building
  /\ Edit(updateTrackPointTilt(editor, id, tilt))
EditorRemoveTrackPoint(id) ==
  /\ Building
  /\ Edit(removeTrackPoint(editor, id))
EditorCreateLoopAtPoint(id) ==
  /\ Building
  /\ Edit(createLoopAtPoint(editor, id))
EditorRemoveLoopAtPoint(id) ==
  /\ Building
  /\ Edit(removeLoopAtPoint(editor, id))
EditorSetIsLooped(looped) ==
  /\ Building
  /\ looped # editor.isLooped
  /\ Edit([editor EXCEPT !.isLooped = looped])
EditorClearTrack ==
  /\ Building
  /\ Edit(clearTrack(editor))

\* useKeyboardShortcuts, handleKeyDown: Ctrl+Z and Ctrl+Shift+Z / Ctrl+Y are
\* handled before the mode is looked at
KeyUndo ==
  /\ canUndo(editor)
  /\ Edit(undo(editor))
KeyRedo ==
  /\ canRedo(editor)
  /\ Edit(redo(editor))
\* Space: startRide() in build mode on two or more points; stopRide() during a ride
KeySpace ==
  \/ /\ Building
     /\ Len(editor.trackPoints) >= 2
     /\ Edit(startRide(editor))
  \/ /\ ~Building
     /\ editor.isRiding
     /\ Edit(stopRide(editor))

\* the undo depth explored
MaxUndoDepth == 4
EditsLeft == Len(editor.history) < MaxUndoDepth
NextEditor ==
  \/ EditsLeft /\ \E position \in EditorPositions : EditorAddTrackPoint(position)
  \/ EditsLeft /\ \E id \in PointIds(editor), position \in EditorPositions :
       EditorInsertTrackPointAfter(id, position)
  \/ EditsLeft /\ \E id \in PointIds(editor) : EditorDuplicateTrackPoint(id)
  \/ EditsLeft /\ \E id \in PointIds(editor), tilt \in EditorTilts :
       EditorUpdateTrackPointTilt(id, tilt)
  \/ EditsLeft /\ \E id \in PointIds(editor) : EditorRemoveTrackPoint(id)
  \/ EditsLeft /\ \E id \in PointIds(editor) : EditorCreateLoopAtPoint(id)
  \/ EditsLeft /\ \E id \in PointIds(editor) : EditorRemoveLoopAtPoint(id)
  \/ \E looped \in BOOLEAN : EditorSetIsLooped(looped)
  \/ EditorClearTrack
  \/ KeyUndo
  \/ KeyRedo
  \/ KeySpace

SpecEditor == Init /\ [][NextEditor]_vars

\* a long editing session: points added at one place, tilts set, and undo,
\* redo and clear, until the history is full and beyond
NextHistory ==
  \/ /\ Len(editor.trackPoints) < 1
     /\ EditorAddTrackPoint(Pt(0, 0, 0))
  \/ \E id \in PointIds(editor), tilt \in EditorTilts : EditorUpdateTrackPointTilt(id, tilt)
  \/ EditorClearTrack
  \/ KeyUndo
  \/ KeyRedo

SpecHistory == Init /\ [][NextHistory]_vars

\* ------------------------------------------------------------------------
\* Components mounting and unmounting while the WASM module loads
\* ------------------------------------------------------------------------
\* the loads there can be: each call starts one at most
Loads == 1..MaxComponents
Load(s) ==
  /\ wasm' = s
  /\ UNCHANGED <<simVars, trackVars, rideVars, validation, editor>>

\* the HEAD request of load n is answered
FetchResponds(n, ok) ==
  /\ n <= Len(wasm.loads) /\ wasm.loads[n] = "fetch"
  /\ Load(IF ok THEN [wasm EXCEPT !.loads[n] = "import"] ELSE LoadFails(wasm, n))

\* the dynamic import of load n settles
ImportSettles(n, ok) ==
  /\ n <= Len(wasm.loads) /\ wasm.loads[n] = "import"
  /\ Load(IF ok THEN [wasm EXCEPT !.loads[n] = "init"] ELSE LoadFails(wasm, n))

\* the factory of load n settles
FactorySettles(n, ok) ==
  /\ n <= Len(wasm.loads) /\ wasm.loads[n] = "init"
  /\ Load(IF ok THEN [wasm EXCEPT !.loads[n] = "resolved", !.moduleInstance = n]
          ELSE LoadFails(wasm, n))

\* the effect of component c runs on mount
Mount(c) ==
  /\ wasm.hooks[c].phase = "initial"
  /\ LET call == loadPhysicsEngine(wasm)
     IN  Load([call.loader EXCEPT !.hooks[c].phase = "mounted",
                                  !.hooks[c].result = call.result])

\* the .then callback of component c
HookThen(c) ==
  LET hook == wasm.hooks[c]
  IN  /\ hook.phase # "initial" /\ ~hook.settled
      /\ Settled(wasm, hook.result) /\ Outcome(wasm, hook.result).ok
      /\ Load([wasm EXCEPT !.hooks[c].settled = TRUE,
                           !.hooks[c].observed = Outcome(wasm, hook.result),
                           !.hooks[c].isWasmLoaded = TRUE,
                           !.hooks[c].current = Len(wasm.sims) + 1,
                           !.sims = Append(@, PhysicsSimulation(wasm, c))])

\* the .catch callback of component c
HookCatch(c) ==
  LET hook == wasm.hooks[c]
  IN  /\ hook.phase # "initial" /\ ~hook.settled
      /\ Settled(wasm, hook.result) /\ ~Outcome(wasm, hook.result).ok
      /\ Load([wasm EXCEPT !.hooks[c].settled = TRUE,
                           !.hooks[c].observed = Outcome(wasm, hook.result),
                           !.hooks[c].isWasmLoaded = FALSE])

\* the cleanup of the effect of component c runs on unmount
Unmount(c) ==
  LET hook == wasm.hooks[c]
  IN  /\ hook.phase = "mounted"
      /\ Load([wasm EXCEPT !.hooks[c].phase = "unmounted",
                           !.sims = IF hook.current = 0 THEN @
                                    ELSE [@ EXCEPT ![hook.current] = dispose(@)]])

NextWasm ==
  \/ \E c \in Components : Mount(c)
  \/ \E n \in Loads, ok \in BOOLEAN : FetchResponds(n, ok)
  \/ \E n \in Loads, ok \in BOOLEAN : ImportSettles(n, ok)
  \/ \E n \in Loads, ok \in BOOLEAN : FactorySettles(n, ok)
  \/ \E c \in Components : HookThen(c)
  \/ \E c \in Components : HookCatch(c)
  \/ \E c \in Components : Unmount(c)

SpecWasm == Init /\ [][NextWasm]_vars

\* ------------------------------------------------------------------------
\* Properties of the simulator
\* ------------------------------------------------------------------------
\* the substeps of the last step(): substep i took Before(i) to After(i)
SubstepIndices == 1..(Len(substeps) - 1)
Before(i) == substeps[i].state
After(i) == substeps[i + 1].state
OnOpenTrack == HasTrack(physics) /\ ~Splines[physics.spline].isLooped
OnClosedTrack == HasTrack(physics) /\ Splines[physics.spline].isLooped

\* C1: in every free-running substep the energy implied by the speed the
\* substep assigns (kinetic energy of that speed plus the potential energy at
\* the substep's track sample) is at most the total energy recorded before the
\* substep, plus the 1% tolerance
C1_EnergyWithinBudget ==
  \A i \in SubstepIndices :
    ~After(i).isOnChainLift =>
      After(i).kineticEnergy + After(i).potentialEnergy
        <= MulDiv(Before(i).totalEnergy, 101, 100)

\* C2: with the chain lift off, a step never raises the recorded totalEnergy
\* (the caller is in stage "run" after a step() and after nothing else)
C2_EnergyMonotone ==
  [][(stage' = "run" /\ ~physics.hasChainLift)
       => physics'.state.totalEnergy <= physics.state.totalEnergy]_vars
\* a step with the chain lift off has dissipated recorded energy
C2_Witness ==
  /\ stage = "run" /\ HasTrack(physics) /\ ~physics.hasChainLift
  /\ substeps # <<>>
  /\ physics.state.totalEnergy < Before(1).totalEnergy

\* C4: the speed is at least MIN_SPEED in every state of the simulator
C4_SpeedAtLeastMin == physics.state.speed >= MIN_SPEED

\* the first hill peak: the first control point that is higher than its
\* predecessor and not lower than its successor (0 when the track does not
\* begin with such a climb), and its progress
RECURSIVE PeakIndexFrom(_, _)
PeakIndexFrom(points, i) ==
  IF i >= Len(points) THEN 0
  ELSE IF points[i + 1].y > points[i].y
          /\ (i + 1 = Len(points) \/ points[i + 2].y <= points[i + 1].y)
       THEN i
       ELSE IF points[i + 1].y > points[i].y THEN PeakIndexFrom(points, i + 1) ELSE 0
FirstPeakProgress(trk) == (PeakIndexFrom(trk.points, 1) * Unit) \div Segments(trk)

\* C5: with the chain lift enabled on a track that begins with a climb, a
\* substep is on the chain lift exactly when it starts below the progress of
\* the first hill peak
C5_LiftUntilFirstPeak ==
  \A i \in SubstepIndices :
    (physics.hasChainLift /\ FirstPeakProgress(Splines[physics.spline]) > 0)
      => (After(i).isOnChainLift
            <=> Before(i).progress < FirstPeakProgress(Splines[physics.spline]))

\* C6: in a substep on the chain lift the speed changes by at most
\* CHAIN_LIFT_ACCELERATION * dt
C6_LiftAccelerationBounded ==
  \A i \in SubstepIndices :
    After(i).isOnChainLift =>
      Abs(After(i).speed - Before(i).speed)
        <= Mul(CHAIN_LIFT_ACCELERATION, SubDt(frameDt)) + 1

\* C7: a step with dt above the cap runs the four substeps of a step with
\* dt = 0.05 s, each of 0.0125 s, and leaves the simulator as that step does
C7_DtCapped ==
  (stage = "run" /\ substeps # <<>> /\ frameDt > MaxDt) =>
    /\ Len(substeps) = PHYSICS_SUBSTEPS + 1
    /\ \A i \in SubstepIndices :
         substeps[i + 1] = stepInternal(substeps[i], Splines[physics.spline],
                                        MaxDt \div PHYSICS_SUBSTEPS)
    /\ physics = step(substeps[1], MaxDt)
\* a step with dt = 0.1 s has moved the car
C7_Witness ==
  /\ stage = "run" /\ frameDt > MaxDt /\ substeps # <<>>
  /\ physics.state.arcLength > Before(1).arcLength

\* C8: on a closed track, after every step the progress is in [0, 1) and is
\* the stored arcLength divided by the total length
C8_ClosedProgressConsistent ==
  (stage = "run" /\ OnClosedTrack) =>
    /\ physics.state.progress >= 0
    /\ physics.state.progress < Unit
    /\ Abs(physics.state.progress
            - DivU(physics.state.arcLength, Splines[physics.spline].totalLength)) <= 1

\* C10: on an open track of positive length a ride that keeps stepping
\* reaches progress >= 0.99
C10_RideCompletes ==
  [](stage = "run" /\ OnOpenTrack => <>(physics.state.progress >= RideComplete))
\* a step has brought the car from below 0.99 to 0.99 or beyond
C10_Witness ==
  /\ stage = "run" /\ OnOpenTrack /\ substeps # <<>>
  /\ Before(1).progress < RideComplete
  /\ physics.state.progress >= RideComplete

\* ------------------------------------------------------------------------
\* Properties of the track sections
\* ------------------------------------------------------------------------
\* the dense grid of progress values the coverage is sampled on
GridSteps == 200
ProgressGrid == {(g * Unit) \div GridSteps : g \in 0..(GridSteps - 1)}

\* C3: for every track of two or more control points, open or closed, with any
\* set of loop elements, buildTrackSections returns sections whose progress
\* ranges are contiguous and cover [0, 1) exactly: the first starts at 0, each
\* starts where the one before it ends, the last ends at 1, and every progress
\* value of the grid lies in exactly one section
C3_SectionsCoverProgress ==
  Len(trackPoints) >= 2 =>
    /\ ~built.threw
    /\ Len(built.sections) > 0
    /\ built.sections[1].startProgress = 0
    /\ \A k \in 1..(Len(built.sections) - 1) :
         built.sections[k + 1].startProgress = built.sections[k].endProgress
    /\ built.sections[Len(built.sections)].endProgress = Unit
    /\ \A p \in ProgressGrid :
         Cardinality({k \in 1..Len(built.sections) : InSection(p, built.sections[k])}) = 1

\* ------------------------------------------------------------------------
\* Properties of the rides
\* ------------------------------------------------------------------------
\* the ride under way: in the 2D ride view its progress is the simulator's,
\* under the 3D ride camera the store's rideProgress
RidingIn2D == isRiding /\ use2DMode /\ stage \in {"speed", "run"}
RidingIn3D == isRiding /\ ~use2DMode

\* C9: on an open track the progress never exceeds 1, and no frame leaves the
\* ride under way at a progress of 0.99 or more: the frame that brings the
\* progress there ends the ride (mode "build", isRiding false)
C9_OpenRideEndsAtComplete ==
  ~isLooped =>
    /\ rideProgress <= Unit
    /\ physics.state.progress <= Unit
    /\ RidingIn2D => physics.state.progress < RideComplete
    /\ RidingIn3D => rideProgress < RideComplete

\* ------------------------------------------------------------------------
\* Properties of the simulator without a usable track
\* ------------------------------------------------------------------------
\* C11: on a simulator that has no spline (setTrack was last given fewer than
\* two control points) or whose track has length 0, step(dt) leaves every
\* field of the simulator as it was, for every dt
C11_StepWithoutTrackIsNoOp ==
  [][(stage' = "run" /\ ~HasTrack(physics)) => physics' = physics]_vars
\* step() has been called on a track of two coincident control points
C11_Witness ==
  /\ stage = "run"
  /\ physics.spline # 0 /\ Len(TrackList[physics.spline].points) >= 2
  /\ ~HasTrack(physics)
  /\ frameDt > 0

\* ------------------------------------------------------------------------
\* Properties of the sections of degenerate tracks
\* ------------------------------------------------------------------------
\* two or more control points of which some coincide
Degenerate(tps) ==
  /\ Len(tps) >= 2
  /\ \E i, j \in 1..Len(tps) : i # j /\ tps[i].position = tps[j].position
\* what sampleHybridTrack returns at progress p on the memoised sections
SampleOfBuilt(p) ==
  sampleHybridTrack(p, built.sections, getTrackCurve(Positioned(trackPoints), isLooped),
                    loopSegments)

\* C12: on a track with coinciding control points buildTrackSections returns
\* (it does not throw), every section's progress range is finite, and
\* sampleHybridTrack returns null or a sample of finite position at every
\* progress value of the grid
C12_DegenerateWellDefined ==
  Degenerate(trackPoints) =>
    /\ ~built.threw
    /\ \A k \in 1..Len(built.sections) :
         Finite(built.sections[k].startProgress) /\ Finite(built.sections[k].endProgress)
    /\ \A p \in ProgressGrid :
         \/ SampleOfBuilt(p).kind = "null"
         \/ SampleOfBuilt(p).kind = "sample" /\ SampleOfBuilt(p).finite

\* ------------------------------------------------------------------------
\* Properties of validateTrack
\* ------------------------------------------------------------------------
Validated == TrackList[validation.track]
Returned == validation.phase = "done"
\* the issue is among those returned
Reports(type, message) ==
  \E n \in 1..Len(validation.issues) :
    validation.issues[n].type = type /\ validation.issues[n].message = message

\* C13: a call of validateTrack steps its simulator at most maxSteps = 10,000
\* times, and a call that is in its simulation loop goes on to return its
\* issue list
C13_ValidationTerminates ==
  /\ [](validation.calls <= maxSteps)
  /\ (validation.phase = "loop" ~> Returned)
\* a call has returned after the full 10,000 steps without leaving the loop
\* through a break
C13_Witness ==
  /\ Returned /\ validation.calls = maxSteps
  /\ validation.issues # <<>>

\* C14: in the issues a call returns after its simulation loop, every
\* threshold that holds on the recorded extrema has its issue, whichever other
\* thresholds hold
C14_ThresholdsIndependent ==
  (Returned /\ validation.calls > 0) =>
    /\ validation.seen.maxVerticalG > 4 * Unit
         => Reports("error", "Extreme positive G-force")
    /\ validation.seen.maxVerticalG > (35 * Unit) \div 10
         => Reports("warning", "High positive G-force")
    /\ validation.seen.minVerticalG < 0 - Unit
         => Reports("warning", "Strong negative G-force (airtime)")
    /\ validation.seen.maxLateralG > (15 * Unit) \div 10
         => Reports("error", "Excessive lateral G-force")
    /\ validation.seen.maxLateralG > (12 * Unit) \div 10
         => Reports("warning", "High lateral G-force")
    /\ validation.seen.maxSpeed > 45 * Unit
         => Reports("warning", "Very high speed")
    /\ (validation.seen.minSpeed < Unit \div 2 /\ validation.seen.lowSpeedPoint > Unit \div 10)
         => Reports("error", "Car may stall")
    /\ validation.seen.minHeight < Unit \div 2
         => Reports("error", "Track goes underground or too close to ground")

\* C15: a call that has run its simulation loop returns the error "Car may
\* stall" exactly when at some step of the loop the progress was beyond 10%
\* and the speed below 0.5 m/s
C15_StallIffLowSpeedAfterTenth ==
  (Returned /\ validation.calls > 0) =>
    (Reports("error", "Car may stall") <=> validation.lowAfterTenth)

\* C16: for a track with a control point at height 0.1 m, the issues returned
\* include the error "Track goes underground or too close to ground" with the
\* index of that control point as its pointIndex
C16_LowPointIdentified ==
  Returned =>
    \A i \in 1..Len(Validated.points) :
      Validated.points[i].y = Unit \div 10 =>
        \E n \in 1..Len(validation.issues) :
          /\ validation.issues[n].type = "error"
          /\ validation.issues[n].message = "Track goes underground or too close to ground"
          /\ validation.issues[n].pointIndex = i - 1

\* the speed/arc-length/progress trajectory of a simulator
Trajectory(eng) == <<eng.state.speed, eng.state.arcLength, eng.state.progress>>

\* C17: the simulator without the clamp of the G components is, at every step
\* of a validation, at the same speed, arc length and progress as the
\* simulator with it, and the G force issues (severity and kind) generated
\* from the extrema seen without the clamp are those generated with it
C17_ClampDisplayOnly ==
  /\ Trajectory(validation.unclamped) = Trajectory(validation.physics)
  /\ (validation.phase \in {"issues", "done"} /\ validation.calls > 0) =>
       GForceIssues(validation.unclampedSeen) = GForceIssues(validation.seen)
\* a validation has returned a G force issue for a vertical G that the clamp
\* had cut down to MAX_VERTICAL_G
C17_Witness ==
  /\ Returned
  /\ validation.unclampedSeen.maxVerticalG > MAX_VERTICAL_G
  /\ validation.seen.maxVerticalG = MAX_VERTICAL_G
  /\ validation.physics.state.arcLength > 0
  /\ Reports("error", "Extreme positive G-force")

\* ------------------------------------------------------------------------
\* Properties of the reported G forces
\* ------------------------------------------------------------------------
\* (speed at the end of substep i - speed at its start) / its duration
TangentialAcceleration(i) == DivU(After(i).speed - Before(i).speed, SubDt(frameDt))

\* C18: after every substep the longitudinal G is -(tangential acceleration)/g,
\* the tangential acceleration being the change of the speed over the substep
\* divided by the substep's duration (to within rounding)
C18_LongitudinalGFromSpeedChange ==
  \A i \in SubstepIndices :
    Abs(After(i).gForceLongitudinal + DivU(TangentialAcceleration(i), GRAVITY)) <= 5

\* the simulator is on the single hill with the chain lift on
OnHill == physics.spline # 0 /\ TrackList[physics.spline] = HillTrack
\* C19: a ride over the single hill (zero banking, chain lift on) that keeps
\* stepping comes to a step at which the vertical G is below 1
C19_CrestBelowOneG ==
  []((stage = "run" /\ OnHill /\ physics.hasChainLift)
       => <>(OnHill /\ physics.state.gForceVertical < Unit))

\* ------------------------------------------------------------------------
\* Properties of the sections of a track with a loop element
\* ------------------------------------------------------------------------
SectionTypes == [k \in 1..Len(built.sections) |-> built.sections[k].type]
SectionPoints == [k \in 1..Len(built.sections) |-> built.sections[k].pointIndex]

\* C20: for an open track of three control points with one loop element, at
\* the point of index 1, buildTrackSections returns three sections: the spline
\* section from point 0, the loop section of point 1, and the spline section
\* that leaves point 1
C20_LoopBetweenSplines ==
  (Len(trackPoints) = 3 /\ ~isLooped /\ loopSegments = {1}) =>
    /\ ~built.threw
    /\ SectionTypes = <<"spline", "roll", "spline">>
    /\ SectionPoints = <<0, 1, 1>>
\* the sections of such a track, its three control points at three places
C20_Witness ==
  /\ Len(trackPoints) = 3 /\ ~isLooped /\ loopSegments = {1}
  /\ Cardinality({trackPoints[i].position : i \in 1..3}) = 3
  /\ Len(built.sections) = 3
  /\ built.sections[2].arcLength > 0
  /\ built.sections[2].endProgress > built.sections[2].startProgress

\* ------------------------------------------------------------------------
\* Properties of the sampled track position
\* ------------------------------------------------------------------------
BuiltCurve == getTrackCurve(Positioned(trackPoints), isLooped)
\* the position sampled at parameter localT of section k of the memoised sections
PositionIn(k, localT) ==
  sampleSection(built.sections[k], localT, BuiltCurve, loopSegments).point
\* positions that coincide within 0.01 m
PositionTolerance == Unit \div 100
Coincide(a, b) == VDistance(a, b) <= PositionTolerance
\* a closed track of distinct control points, some of them with a loop element
ClosedWithLoops ==
  /\ isLooped /\ loopSegments # {}
  /\ Len(trackPoints) >= 2 /\ ~Degenerate(trackPoints)
  /\ ~built.threw

\* C21: on a closed track with loop elements the sampled position is
\* continuous: the position at progress 0 is the limit of the position as the
\* progress approaches 1, and at every boundary between adjacent sections the
\* end of one section is the start of the next
C21_ClosedTrackContinuous ==
  ClosedWithLoops =>
    /\ Coincide(PositionIn(1, 0), PositionIn(Len(built.sections), Unit))
    /\ \A k \in 1..(Len(built.sections) - 1) :
         Coincide(PositionIn(k, Unit), PositionIn(k + 1, 0))

\* ------------------------------------------------------------------------
\* Properties of the editor
\* ------------------------------------------------------------------------
\* the track of the store: what a history entry records
EditorTrack == createHistoryEntry(editor)

\* C22: after any sequence of edits, undos and redos from the empty track no
\* two loop elements have the same entryPointId
C22_OneLoopPerPoint ==
  \A i, j \in 1..Len(editor.loopSegments) :
    i # j => editor.loopSegments[i].entryPointId # editor.loopSegments[j].entryPointId
\* a track with a loop element whose latest edit changed nothing (such as
\* createLoopAtPoint on the point that has the loop), a point having been
\* added after the loop was made
C22_Witness ==
  /\ Len(editor.loopSegments) = 1
  /\ Len(editor.trackPoints) >= 2
  /\ editor.historyIndex = Len(editor.history) - 1
  /\ editor.historyIndex >= 2
  /\ editor.history[editor.historyIndex + 1] = EditorTrack
  /\ editor.history[editor.historyIndex].loopSegments # <<>>
  /\ editor.history[editor.historyIndex].trackPoints # editor.trackPoints

\* C26: undo followed at once by redo is the identity on the track: wherever
\* undo acts, the trackPoints, loopSegments and isLooped after undo() and then
\* redo() are those of before the undo
C26_UndoRedoIdentity ==
  canUndo(editor) => createHistoryEntry(redo(undo(editor))) = EditorTrack

\* C27: whenever a ride is in progress the track has at least 2 control points
C27_RideHasTrack ==
  editor.isRiding => Len(editor.trackPoints) >= 2

\* C28: the history holds at most maxHistorySize entries and historyIndex is
\* between -1 and history.length - 1, so that the entry undo reads
\* (history[historyIndex]) and the entry redo reads (history[historyIndex + 1])
\* exist whenever they act
C28_HistoryBounded ==
  /\ Len(editor.history) <= maxHistorySize
  /\ 0 - 1 <= editor.historyIndex
  /\ editor.historyIndex <= Len(editor.history) - 1
  /\ canUndo(editor) => editor.historyIndex + 1 \in DOMAIN editor.history
  /\ canRedo(editor) => editor.historyIndex + 2 \in DOMAIN editor.history
\* a full history whose oldest entry, that of the empty track, has been
\* shifted out, with undo taken from its end
C28_Witness ==
  /\ Len(editor.history) = maxHistorySize
  /\ editor.history[1].trackPoints # <<>>
  /\ editor.historyIndex = maxHistorySize - 2

\* ------------------------------------------------------------------------
\* Properties of the sampled frame
\* ------------------------------------------------------------------------
\* sampleVerticalLoopAnalytically: rotatedUp = normalize(U0 cos(theta) - forward sin(theta))
LoopUp(frame, t) ==
  (CHOOSE once \in {(
    ThreeNormalize(VAdd(VScale(frame.up, CosAny(theta)),
                        VScale(frame.forward, 0 - SinAny(theta))))) : theta \in {LoopTheta(t)}} : TRUE)
\* sampleVerticalLoopAnalytically: normal = R0.clone()
LoopNormal(frame) == frame.right
\* sampleHybridTrack, "Use world-up anchored frame": the up vector of a spline sample
RightLengthMin == 100
SplineUp(tangent) ==
  (CHOOSE once \in {(
    IF VLength(right) > RightLengthMin
    THEN ThreeNormalize(VCross(ThreeNormalize(right), tangent))
    ELSE (CHOOSE once \in {(
           IF VLength(up) > UpLengthMin THEN ThreeNormalize(up)
           ELSE ThreeNormalize(VSub(Vec3(Unit, 0, 0),
                                    VScale(tangent, VDot(Vec3(Unit, 0, 0), tangent))))) : up \in {VSub(Vec3(0, Unit, 0), VScale(tangent, VDot(Vec3(0, Unit, 0), tangent)))}} : TRUE)) : right \in {VCross(tangent, Vec3(0, Unit, 0))}} : TRUE)
\* normal = crossVectors(tangent, up).normalize()
SplineNormal(tangent, up) == ThreeNormalize(VCross(tangent, up))
\* the tangent, up and normal sampleHybridTrack returns at a progress value
FrameOfBuilt(p) ==
  (CHOOSE once \in {(
    (CHOOSE once \in {(
      IF section.type = "roll"
      THEN [tangent |-> sample.tangent,
            up |-> LoopUp(section.rollFrame, LocalT(p, section)),
            normal |-> LoopNormal(section.rollFrame)]
      ELSE (CHOOSE once \in {(
             [tangent |-> sample.tangent, up |-> up,
              normal |-> SplineNormal(sample.tangent, up)]) : up \in {SplineUp(sample.tangent)}} : TRUE)) : sample \in {sampleSection(section, LocalT(p, section), BuiltCurve, loopSegments)}} : TRUE)) : section \in {SectionAt(p, built.sections)}} : TRUE)
\* unit length and right angles within 0.01
FrameTolerance == Unit \div 100
Orthonormal(f) ==
  /\ Abs(VLength(f.tangent) - Unit) <= FrameTolerance
  /\ Abs(VLength(f.up) - Unit) <= FrameTolerance
  /\ Abs(VLength(f.normal) - Unit) <= FrameTolerance
  /\ Abs(VDot(f.tangent, f.up)) <= FrameTolerance
  /\ Abs(VDot(f.tangent, f.normal)) <= FrameTolerance
  /\ Abs(VDot(f.up, f.normal)) <= FrameTolerance
\* the progress values the frame is sampled at
FrameSteps == 40
FrameGrid == {(g * Unit) \div FrameSteps : g \in 0..(FrameSteps - 1)}

\* C23: at every sampled progress value, in spline and in loop sections, the
\* tangent, up and normal vectors returned have unit length and are mutually
\* orthogonal
C23_FrameOrthonormal ==
  (Len(trackPoints) >= 2 /\ ~Degenerate(trackPoints) /\ ~built.threw) =>
    \A p \in FrameGrid : Orthonormal(FrameOfBuilt(p))

\* ------------------------------------------------------------------------
\* Properties of the chain-lift handoff
\* ------------------------------------------------------------------------
\* the handoff progress of track k as setTrack finds it with the chain lift
\* enabled beforehand on a new simulator
HandoffOf(k) == setTrack(setChainLift(NewPhysics, TRUE), k).chainLiftEndProgress

\* C24: once a track is set and the chain lift is enabled, the progress at
\* which the chain lift disengages is the one found from that track's
\* geometry, whether the chain lift was enabled before or after setTrack
C24_HandoffFromTrackAlone ==
  (physics.spline # 0 /\ physics.hasChainLift) =>
    physics.chainLiftEndProgress = HandoffOf(physics.spline)

\* ------------------------------------------------------------------------
\* Properties of the validator's pass over a closed track
\* ------------------------------------------------------------------------
\* the simulation loop of the call has been left
LoopLeft == validation.phase \in {"issues", "done"} /\ validation.calls > 0

\* C25: on a closed track the simulation loop ends only once the car has gone
\* round the circuit and is back at the start progress, or at the iteration
\* cap; never while the car is still on its first pass through the beginning
\* of the track
C25_ClosedLoopRunsTheLap ==
  (LoopLeft /\ Validated.isLooped) =>
    \/ validation.wrapped
    \/ validation.calls = maxSteps

\* ------------------------------------------------------------------------
\* Properties of the WASM loader and of the hook
\* ------------------------------------------------------------------------
\* the components whose call of loadPhysicsEngine() has settled
SettledHooks == {c \in Components : wasm.hooks[c].settled}

\* C29: however the calls of loadPhysicsEngine() interleave with the load,
\* the load is started at most once and every caller observes the outcome of
\* that one load: its module instance, or its error
C29_OneLoadOneOutcome ==
  /\ Len(wasm.loads) <= 1
  /\ \A c \in SettledHooks :
       /\ wasm.hooks[c].observed = Outcome(wasm, [kind |-> "promise", id |-> 1])
       /\ wasm.hooks[c].observed.ok => wasm.moduleInstance = 1
       /\ ~wasm.hooks[c].observed.ok => wasm.loadError = 1 /\ wasm.moduleInstance = 0

\* every component has called, one of them after the load had ended and one
\* while it was running
C29_Witness ==
  /\ SettledHooks = Components
  /\ \E c \in Components : wasm.hooks[c].result.kind = "value"
  /\ \E c \in Components : wasm.hooks[c].result.kind = "promise"

\* C30: once a component has unmounted, every native engine created for it
\* has been disposed
C30_EnginesDisposed ==
  \A c \in Components :
    wasm.hooks[c].phase = "unmounted" =>
      \A i \in 1..Len(wasm.sims) : wasm.sims[i].owner = c => ~wasm.sims[i].engine

====
